---- MODULE Spec2Model ----
(***************************************************************************)
(* A model of DotWave.js (src/src/dotwave.js): the particle field, the     *)
(* per-frame simulation and render pass, the pointer and resize handlers   *)
(* and the public lifecycle calls (pause, resume, updateOptions, destroy). *)
(*                                                                         *)
(* Numbers.  The program computes in IEEE doubles.  The model computes in  *)
(* fixed point: the integer n stands for n / Scale, and every arithmetic   *)
(* operation rounds its result to the nearest representable value, as a    *)
(* floating point operation does.  NaN and the two infinities are three    *)
(* reserved values with the IEEE rules for them.                           *)
(*                                                                         *)
(* Strings.  A colour string is a sequence of tokens: one token per        *)
(* letter or punctuation mark, and one token per decimal number.           *)
(***************************************************************************)
EXTENDS Integers, Sequences, FiniteSets, TLC

(***************************************************************************)
(* Bounds of the model.                                                    *)
(***************************************************************************)
MaxDots == 2
MaxSteps == 3
MaxTimers == 1
MaxUpdates == 1
MaxPointer == 2
MaxBurst == 3

Scale == 10 * 10

(***************************************************************************)
(* Fixed-point arithmetic with the IEEE special values.                    *)
(***************************************************************************)
Infinity == 2 ^ 30
NegInfinity == 0 - Infinity
NaN == Infinity + 1

IsNaN(a) == a = NaN
IsFinite(a) == a # NaN /\ a # Infinity /\ a # NegInfinity

Abs(a) == IF a < 0 THEN 0 - a ELSE a
Sign(a) == IF a < 0 THEN 0 - 1 ELSE IF a > 0 THEN 1 ELSE 0
Min(a, b) == IF a < b THEN a ELSE b

\* n / d rounded to the nearest integer (d # 0)
RDiv(n, d) ==
    IF d > 0 THEN (2 * n + d) \div (2 * d)
    ELSE (2 * (0 - n) + (0 - d)) \div (2 * (0 - d))

\* a result too large for the representation overflows to an infinity
Saturate(n) ==
    IF n >= Infinity THEN Infinity
    ELSE IF n <= NegInfinity THEN NegInfinity
    ELSE n

SignedInf(s) == IF s < 0 THEN NegInfinity ELSE Infinity

Neg(a) ==
    IF a = NaN THEN NaN
    ELSE IF a = Infinity THEN NegInfinity
    ELSE IF a = NegInfinity THEN Infinity
    ELSE 0 - a

Add(a, b) ==
    IF a = NaN \/ b = NaN THEN NaN
    ELSE IF ~IsFinite(a) /\ ~IsFinite(b) THEN (IF a = b THEN a ELSE NaN)
    ELSE IF ~IsFinite(a) THEN a
    ELSE IF ~IsFinite(b) THEN b
    ELSE Saturate(a + b)

Sub(a, b) == Add(a, Neg(b))

\* |a| * |b| / Scale rounded to the nearest value, computed in parts so that
\* no intermediate result leaves the range of the representation
MulAbs(a, b) ==
    LET qa == a \div Scale
        ra == a % Scale
        qb == b \div Scale
        rb == b % Scale
    IN  IF qa # 0 /\ qb >= (Infinity \div Scale) \div qa THEN Infinity
        ELSE Saturate(qa * qb * Scale + qa * rb + ra * qb + RDiv(ra * rb, Scale))

Mul(a, b) ==
    IF a = NaN \/ b = NaN THEN NaN
    ELSE IF ~IsFinite(a) \/ ~IsFinite(b)
         THEN (IF a = 0 \/ b = 0 THEN NaN ELSE SignedInf(Sign(a) * Sign(b)))
    ELSE LET m == MulAbs(Abs(a), Abs(b))
         IN  IF Sign(a) * Sign(b) < 0 THEN Neg(m) ELSE m

\* |a| * Scale / |b| rounded to the nearest value (b # 0), computed in parts
DivAbs(a, b) ==
    LET q == a \div b
        r == a % b
        frac == IF b <= Infinity \div Scale THEN RDiv(r * Scale, b)
                ELSE RDiv((r \div Scale) * Scale, b \div Scale)
    IN  IF q >= Infinity \div Scale THEN Infinity ELSE Saturate(q * Scale + frac)

Div(a, b) ==
    IF a = NaN \/ b = NaN THEN NaN
    ELSE IF ~IsFinite(a) /\ ~IsFinite(b) THEN NaN
    ELSE IF ~IsFinite(a) THEN SignedInf(Sign(a) * (IF b < 0 THEN 0 - 1 ELSE 1))
    ELSE IF ~IsFinite(b) THEN 0
    ELSE IF b = 0 THEN (IF a = 0 THEN NaN ELSE SignedInf(Sign(a)))
    ELSE LET m == DivAbs(Abs(a), Abs(b))
         IN  IF Sign(a) * Sign(b) < 0 THEN Neg(m) ELSE m

\* A quotient used as a scale factor.  A floating point quotient keeps its
\* relative precision however small it is, so the model keeps such a factor
\* to Scale * Scale: the value of DivFine(a, b) stands for a / b in units of
\* 1 / (Scale * Scale), and MulFine(a, f) is a times such a factor.
DivFine(a, b) ==
    IF a = NaN \/ b = NaN THEN NaN
    ELSE IF ~IsFinite(a) /\ ~IsFinite(b) THEN NaN
    ELSE IF ~IsFinite(a) THEN SignedInf(Sign(a) * (IF b < 0 THEN 0 - 1 ELSE 1))
    ELSE IF ~IsFinite(b) THEN 0
    ELSE IF b = 0 THEN (IF a = 0 THEN NaN ELSE SignedInf(Sign(a)))
    ELSE IF Abs(a) >= Infinity \div (Scale * Scale) THEN Mul(Div(a, b), Scale * Scale)
    ELSE RDiv(a * Scale * Scale, b)

MulFine(a, f) ==
    IF a = NaN \/ f = NaN THEN NaN
    ELSE IF ~IsFinite(a) \/ ~IsFinite(f)
         THEN (IF a = 0 \/ f = 0 THEN NaN ELSE SignedInf(Sign(a) * Sign(f)))
    ELSE IF Abs(f) > Scale * Scale \/ Abs(a) >= Infinity \div (Scale * Scale)
         THEN Mul(a, Div(f, Scale * Scale))
    ELSE RDiv(a * f, Scale * Scale)

\* the comparisons of the language: any comparison with NaN is false
Lt(a, b) == a # NaN /\ b # NaN /\ a < b
Gt(a, b) == a # NaN /\ b # NaN /\ a > b
Le(a, b) == a # NaN /\ b # NaN /\ a <= b
Ge(a, b) == a # NaN /\ b # NaN /\ a >= b

\* Math.min
MathMin(a, b) == IF a = NaN \/ b = NaN THEN NaN ELSE Min(a, b)

RECURSIVE FloorSqrt(_, _, _)
\* the largest r in lo..hi with r * r <= n
FloorSqrt(n, lo, hi) ==
    IF lo >= hi THEN lo
    ELSE LET mid == (lo + hi + 1) \div 2
         IN  IF mid * mid <= n THEN FloorSqrt(n, mid, hi)
             ELSE FloorSqrt(n, lo, mid - 1)

\* Math.sqrt
Sqrt(a) ==
    IF a = NaN \/ a < 0 THEN NaN
    ELSE IF a = Infinity THEN Infinity
    ELSE IF a > Infinity \div Scale THEN 10 * FloorSqrt(a, 0, 46340)
    ELSE LET n == a * Scale
             r == FloorSqrt(n, 0, 46340)
         IN  IF n - r * r <= r THEN r ELSE r + 1

RECURSIVE PowInt(_, _)
\* b to the power k, k a natural number
PowInt(b, k) == IF k = 0 THEN Scale ELSE Mul(PowInt(b, k - 1), b)

\* (r / Scale)^5 in units of Scale^-2, for 0 <= r <= 4 * Scale
Fifth(r) == ((((r * r * r) \div Scale) * r) \div Scale) * r

RECURSIVE FloorRoot5(_, _, _)
FloorRoot5(n, lo, hi) ==
    IF lo >= hi THEN lo
    ELSE LET mid == (lo + hi + 1) \div 2
         IN  IF Fifth(mid) <= n THEN FloorRoot5(n, mid, hi)
             ELSE FloorRoot5(n, lo, mid - 1)

\* the fifth root of b, 0 <= b <= 4 * Scale
Root5(b) ==
    LET n == b * Scale * Scale
        r == FloorRoot5(n, 0, 4 * Scale)
    IN  IF r < 4 * Scale /\ Fifth(r + 1) - n < n - Fifth(r) THEN r + 1 ELSE r

\* Math.pow(b, e) for an exponent e >= 0 that is a multiple of 1/5
Pow(b, e) ==
    LET k == e \div Scale
        j == (e % Scale) \div (Scale \div 5)
    IN  IF e = 0 THEN Scale
        ELSE IF b = NaN THEN NaN
        ELSE IF j = 0 THEN PowInt(b, k)
        ELSE IF b < 0 THEN NaN
        ELSE Mul(PowInt(b, k), PowInt(Root5(b), j))

(***************************************************************************)
(* Strings as token sequences.                                             *)
(***************************************************************************)
\* String.prototype.startsWith
StartsWith(s, prefix) ==
    Len(s) >= Len(prefix) /\ SubSeq(s, 1, Len(prefix)) = prefix

\* the first position at which pat occurs in s, 0 when it does not occur
IndexOf(s, pat) ==
    LET hits == {i \in 1..(Len(s) - Len(pat) + 1) :
                    SubSeq(s, i, i + Len(pat) - 1) = pat}
    IN  IF hits = {} THEN 0 ELSE CHOOSE i \in hits : \A j \in hits : i <= j

\* String.prototype.replace with a string pattern: the first occurrence only
Replace(s, pat, rep) ==
    LET i == IndexOf(s, pat)
    IN  IF i = 0 THEN s
        ELSE SubSeq(s, 1, i - 1) \o rep \o SubSeq(s, i + Len(pat), Len(s))

\* String.prototype.substring(from, to), 0-based, to exclusive, clamped
Substring(s, from, to) == SubSeq(s, Min(from, Len(s)) + 1, Min(to, Len(s)))

\* String.prototype.charAt, "" past the end
CharAt(s, i) == IF i < Len(s) THEN <<s[i + 1]>> ELSE <<>>

LowerOf ==
    [c \in {"R", "E", "D", "B", "L", "U"} |->
        CASE c = "R" -> "r" [] c = "E" -> "e" [] c = "D" -> "d"
          [] c = "B" -> "b" [] c = "L" -> "l" [] c = "U" -> "u"]

\* String.prototype.toLowerCase
ToLowerCase(s) ==
    [i \in 1..Len(s) |-> IF s[i] \in DOMAIN LowerOf THEN LowerOf[s[i]] ELSE s[i]]

HexDigits ==
    <<"0", "1", "2", "3", "4", "5", "6", "7", "8", "9",
      "a", "b", "c", "d", "e", "f">>

IsHexDigit(c) == \E v \in 1..16 : HexDigits[v] = c
HexVal(c) == (CHOOSE v \in 1..16 : HexDigits[v] = c) - 1

\* parseInt(s, 16) of a string of at most two characters: the longest prefix
\* of hexadecimal digits, NaN when there is none.  The result is a whole
\* number, not a fixed-point value.
ParseHex(s) ==
    IF Len(s) = 0 \/ ~IsHexDigit(s[1]) THEN NaN
    ELSE IF Len(s) = 1 \/ ~IsHexDigit(s[2]) THEN HexVal(s[1])
    ELSE 16 * HexVal(s[1]) + HexVal(s[2])

\* a whole number as a string
IntString(n) == IF n = NaN THEN "NaN" ELSE ToString(n)

\* a fixed-point number as a string: 50 is "0.5", 65 is "0.65", 100 is "1"
NumString(a) ==
    IF a = NaN THEN "NaN"
    ELSE IF a = Infinity THEN "Infinity"
    ELSE IF a = NegInfinity THEN "-Infinity"
    ELSE LET m == Abs(a)
             sign == IF a < 0 THEN "-" ELSE ""
             whole == ToString(m \div Scale)
             frac == m % Scale
         IN  IF frac = 0 THEN sign \o whole
             ELSE IF frac % 10 = 0 THEN sign \o whole \o "." \o ToString(frac \div 10)
             ELSE IF frac < 10 THEN sign \o whole \o ".0" \o ToString(frac)
             ELSE sign \o whole \o "." \o ToString(frac)

Rgba(r, g, b, alpha) ==
    <<"r", "g", "b", "a", "(", r, ",", " ", g, ",", " ", b, ",", " ", alpha, ")">>

NamedColors(alpha) ==
    [name \in {<<"w", "h", "i", "t", "e">>, <<"b", "l", "a", "c", "k">>,
               <<"r", "e", "d">>, <<"g", "r", "e", "e", "n">>,
               <<"b", "l", "u", "e">>} |->
        CASE name = <<"w", "h", "i", "t", "e">> -> Rgba("255", "255", "255", alpha)
          [] name = <<"b", "l", "a", "c", "k">> -> Rgba("0", "0", "0", alpha)
          [] name = <<"r", "e", "d">> -> Rgba("255", "0", "0", alpha)
          [] name = <<"g", "r", "e", "e", "n">> -> Rgba("0", "128", "0", alpha)
          [] name = <<"b", "l", "u", "e">> -> Rgba("0", "0", "255", alpha)]

\* What the object literal namedColors inherits from Object.prototype under
\* an all-lowercase name (the key looked up is color.toLowerCase()): the
\* function Object and the prototype object.  Neither is a string; each is
\* written here as one token.
Inherited ==
    [name \in {<<"c", "o", "n", "s", "t", "r", "u", "c", "t", "o", "r">>,
               <<"_", "_", "p", "r", "o", "t", "o", "_", "_">>} |->
        IF name = <<"c", "o", "n", "s", "t", "r", "u", "c", "t", "o", "r">>
        THEN <<"function Object">>
        ELSE <<"[object Object]">>]

\* namedColors[key] || fallback: an own property, else an inherited one,
\* else (undefined is falsy) the fallback
Lookup(named, key, fallback) ==
    IF key \in DOMAIN named THEN named[key]
    ELSE IF key \in DOMAIN Inherited THEN Inherited[key]
    ELSE fallback

\* DotWave.prototype._getRGBA
GetRGBA(color, alpha) ==
    IF StartsWith(color, <<"r", "g", "b", "a">>) THEN color
    ELSE IF StartsWith(color, <<"r", "g", "b">>)
    THEN Replace(Replace(color, <<"r", "g", "b">>, <<"r", "g", "b", "a">>),
                 <<")">>, <<",", " ", NumString(alpha), ")">>)
    ELSE IF StartsWith(color, <<"#">>)
    THEN LET hex == Substring(color, 1, Len(color))
             short == Len(hex) = 3
             r == ParseHex(IF short THEN CharAt(hex, 0) \o CharAt(hex, 0)
                           ELSE Substring(hex, 0, 2))
             g == ParseHex(IF short THEN CharAt(hex, 1) \o CharAt(hex, 1)
                           ELSE Substring(hex, 2, 4))
             b == ParseHex(IF short THEN CharAt(hex, 2) \o CharAt(hex, 2)
                           ELSE Substring(hex, 4, 6))
         IN  Rgba(IntString(r), IntString(g), IntString(b), NumString(alpha))
    ELSE Lookup(NamedColors(NumString(alpha)), ToLowerCase(color),
                Rgba("255", "255", "255", NumString(alpha)))

(***************************************************************************)
(* Options.  Lengths, speeds, factors and opacities are fixed-point        *)
(* values; numDots is a count and rotSmoothingIntensity is a whole number  *)
(* of milliseconds.                                                        *)
(***************************************************************************)
White == <<"w", "h", "i", "t", "e">>

\* this.defaults
Defaults ==
    [container |-> "body",
     numDots |-> 400,
     dotColor |-> White,
     backgroundColor |-> "black",
     dotMinSize |-> 1 * Scale,
     dotMaxSize |-> 3 * Scale,
     dotMinOpacity |-> 50,
     dotMaxOpacity |-> 1 * Scale,
     influenceRadius |-> 100 * Scale,
     influenceStrength |-> 50,
     randomFactor |-> 5,
     friction |-> 97,
     maxSpeed |-> 3 * Scale,
     reactive |-> TRUE,
     zIndex |-> 0 - 1,
     mouseSpeedDecay |-> 85,
     maxMouseSpeed |-> 15 * Scale,
     dotStretch |-> TRUE,
     dotStretchMult |-> 10 * Scale,
     dotMaxStretch |-> 20 * Scale,
     rotSmoothing |-> FALSE,
     rotSmoothingIntensity |-> 150]

\* The argument of a call made without an argument.
Undefined == [undefined |-> TRUE]

\* options || {}
OrEmpty(arg) == IF arg = Undefined THEN << >> ELSE arg

\* a key of a partial options object holds a value other than undefined
Defined(arg, key) == key \in DOMAIN arg

\* DotWave.prototype._mergeOptions
MergeOptions(defaults, opts) ==
    [key \in DOMAIN defaults |->
        IF Defined(opts, key) THEN opts[key] ELSE defaults[key]]

\* the selectors document.querySelector resolves to an element
Document == {"body", "#card1"}

\* DotWave.prototype._getContainer: "null", or the element found
GetContainer(container) ==
    IF container \in Document THEN container ELSE "null"

(***************************************************************************)
(* Angles, in fixed-point radians.                                         *)
(***************************************************************************)
Pi == 3 * Scale + 14
TwoPi == 2 * Pi

\* the sixteenth of a turn nearest to the direction of (x, y) for x >= 0 and
\* y >= 0, as a number of sixteenths 0..4: the bounds are 1000 times the
\* tangents of 1/32, 3/32, 5/32 and 7/32 of a turn
Sixteenth(x, y) ==
    IF 1000 * y < 199 * x THEN 0
    ELSE IF 1000 * y < 668 * x THEN 1
    ELSE IF 1000 * y < 1497 * x THEN 2
    ELSE IF 1000 * y < 5027 * x THEN 3
    ELSE 4

\* a finite value or an infinity cut down to the range of Sixteenth
Shrunk(a) ==
    IF a = Infinity THEN 1000 * Scale
    ELSE IF a = NegInfinity THEN 0 - 1000 * Scale
    ELSE IF Abs(a) > 1000 * Scale THEN a \div (Infinity \div (1000 * Scale))
    ELSE a

\* Math.atan2(y, x), to the nearest sixteenth of a turn, in [-Pi, Pi]
Atan2(y, x) ==
    IF y = NaN \/ x = NaN THEN NaN
    ELSE IF x = 0 /\ y = 0 THEN 0
    ELSE LET big == Abs(x) > 1000 * Scale \/ Abs(y) > 1000 * Scale
             sx == IF big THEN Shrunk(x) ELSE x
             sy == IF big THEN Shrunk(y) ELSE y
             q == Sixteenth(Abs(sx), Abs(sy))
             k == IF sx >= 0 THEN q ELSE 8 - q
         IN  IF sy >= 0 THEN RDiv(k * Pi, 8) ELSE 0 - RDiv(k * Pi, 8)

RECURSIVE WrapDown(_, _)
\* while (a > limit) a -= 2 * Math.PI
WrapDown(a, limit) == IF Gt(a, limit) THEN WrapDown(Sub(a, TwoPi), limit) ELSE a

RECURSIVE WrapUp(_, _)
\* while (a < limit) a += 2 * Math.PI
WrapUp(a, limit) == IF Lt(a, limit) THEN WrapUp(Add(a, TwoPi), limit) ELSE a

RECURSIVE WrapBelow(_, _)
\* while (a >= limit) a -= 2 * Math.PI
WrapBelow(a, limit) == IF Ge(a, limit) THEN WrapBelow(Sub(a, TwoPi), limit) ELSE a

\* an interpolation that leaves the angle where it is
KeepAngle(current, target, factor) == current

\* an interpolation along the arc from current to target as the angles are
\* given, the longer one or more than a turn when they are so apart
LerpAngleUnwrapped(current, target, factor) ==
    WrapBelow(WrapUp(Add(current, Mul(Sub(target, current), factor)), 0), TwoPi)

\* DotWave.prototype._lerpAngle (for finite angles: an infinite one never
\* leaves the loops)
LerpAngle(current, target, factor) ==
    LET diff == WrapUp(WrapDown(Sub(target, current), Pi), Neg(Pi))
        result == Add(current, Mul(diff, factor))
    IN  WrapBelow(WrapUp(result, 0), TwoPi)

(***************************************************************************)
(* The particle field.                                                     *)
(***************************************************************************)
\* the offscreen buffer around the canvas
Margin == 50 * Scale

\* Math.random(): a value in [0, 1).  A call that draws random numbers
\* draws them, in order, from one stream of RandomStreams.
RandomStreams ==
    {<<50, 50, 50, 50, 50>>,
     <<99, 0, 50, 99, 0, 20, 70>>}

Draw(stream, k) == stream[((k - 1) % Len(stream)) + 1]

\* a property of a dot, undefined (NaN in arithmetic) when the dot lacks it
Field(dot, key) == IF key \in DOMAIN dot THEN dot[key] ELSE NaN

\* dot[key] = val
SetField(dot, key, val) ==
    [k \in DOMAIN dot \cup {key} |-> IF k = key THEN val ELSE dot[k]]

\* a dot created without its rotation properties, whatever the options
CreateDotBare(o, w, h, stream, i) ==
    [x |-> Mul(Draw(stream, 5 * (i - 1) + 2), w),
     y |-> Mul(Draw(stream, 5 * (i - 1) + 3), h),
     z |-> Draw(stream, 5 * (i - 1) + 1),
     radius |-> Add(o.dotMinSize,
                    Mul(Draw(stream, 5 * (i - 1) + 1),
                        Sub(o.dotMaxSize, o.dotMinSize))),
     alpha |-> Add(o.dotMinOpacity,
                   Mul(Draw(stream, 5 * (i - 1) + 1),
                       Sub(o.dotMaxOpacity, o.dotMinOpacity))),
     vx |-> Mul(Sub(Draw(stream, 5 * (i - 1) + 4), 50), 150),
     vy |-> Mul(Sub(Draw(stream, 5 * (i - 1) + 5), 50), 150),
     speedMultiplier |-> Add(30, Mul(Draw(stream, 5 * (i - 1) + 1), 70))]

\* the body of the loop of _createDots: the i-th dot
CreateDot(o, w, h, stream, i) ==
    LET k == 5 * (i - 1)
        z == Draw(stream, k + 1)
        base ==
            [x |-> Mul(Draw(stream, k + 2), w),
             y |-> Mul(Draw(stream, k + 3), h),
             z |-> z,
             radius |-> Add(o.dotMinSize, Mul(z, Sub(o.dotMaxSize, o.dotMinSize))),
             alpha |-> Add(o.dotMinOpacity,
                           Mul(z, Sub(o.dotMaxOpacity, o.dotMinOpacity))),
             vx |-> Mul(Sub(Draw(stream, k + 4), 50), 150),
             vy |-> Mul(Sub(Draw(stream, k + 5), 50), 150),
             speedMultiplier |-> Add(30, Mul(z, 70))]
    IN  IF o.dotStretch
        THEN IF o.rotSmoothing
             THEN SetField(SetField(base, "currentAngle", 0), "targetAngle", 0)
             ELSE SetField(base, "currentAngle", 0)
        ELSE base

\* DotWave.prototype._createDots: the new value of this.dots
CreateDots(o, w, h, stream) ==
    [i \in 1..o.numDots |-> CreateDot(o, w, h, stream, i)]

(***************************************************************************)
(* Rendering.                                                              *)
(***************************************************************************)
Circle(dot, fillStyle) ==
    [shape |-> "circle", x |-> dot.x, y |-> dot.y,
     radiusX |-> dot.radius, radiusY |-> dot.radius,
     rotation |-> 0, fillStyle |-> fillStyle]

\* a value is truthy as a number: neither 0 nor NaN
Truthy(a) == a # 0 /\ a # NaN

\* the stretch amount _drawDot computes for a dot
StretchAmount(dot, o) ==
    LET speed == Sqrt(Add(Mul(dot.vx, dot.vx), Mul(dot.vy, dot.vy)))
        normalizedSpeed == MathMin(Div(speed, o.maxSpeed), Scale)
        stretchAmount == Mul(normalizedSpeed, o.dotStretchMult)
    IN  IF Truthy(o.dotMaxStretch)
        THEN MathMin(stretchAmount, o.dotMaxStretch)
        ELSE stretchAmount

\* the dot after _drawDot has set its angles to follow targetAngle
Turned(dot, o, targetAngle, deltaTimeMs) ==
    IF o.rotSmoothing
    THEN SetField(SetField(dot, "targetAngle", targetAngle),
                  "currentAngle",
                  LerpAngle(Field(dot, "currentAngle"), targetAngle,
                            IF Le(o.rotSmoothingIntensity, 0) THEN Scale
                            ELSE MathMin(Div(deltaTimeMs, o.rotSmoothingIntensity),
                                         Scale)))
    ELSE SetField(dot, "currentAngle", targetAngle)

\* the ellipse _drawDot fills for a dot it has turned
Ellipse(turned, stretchAmount, fillStyle) ==
    [dot |-> turned,
     cmd |-> [shape |-> "ellipse", x |-> turned.x, y |-> turned.y,
              radiusX |-> Add(turned.radius, stretchAmount),
              radiusY |-> turned.radius,
              rotation |-> turned.currentAngle,
              fillStyle |-> fillStyle]]

\* _drawDot once the stretch amount and the fill style are computed
Stretched(dot, o, deltaTimeMs, stretchAmount, fillStyle) ==
    IF Lt(stretchAmount, 1) THEN [dot |-> dot, cmd |-> Circle(dot, fillStyle)]
    ELSE Ellipse(Turned(dot, o, Atan2(dot.vy, dot.vx), deltaTimeMs),
                 stretchAmount, fillStyle)

\* DotWave.prototype._drawDot: the dot as it leaves the call, and the shape
\* the call fills
DrawDot(dot, o, deltaTimeMs) ==
    IF ~o.dotStretch
    THEN [dot |-> dot, cmd |-> Circle(dot, GetRGBA(o.dotColor, dot.alpha))]
    ELSE Stretched(dot, o, deltaTimeMs, StretchAmount(dot, o),
                   GetRGBA(o.dotColor, dot.alpha))

(***************************************************************************)
(* The simulation step.                                                    *)
(***************************************************************************)
\* a step that leaves the velocity as the forces made it
Unlimited(vx, vy, maxSpeed) == [vx |-> vx, vy |-> vy]

\* the speed limit of _animate: the velocity of a dot after it
LimitSpeed(vx, vy, maxSpeed) ==
    LET speedSq == Add(Mul(vx, vx), Mul(vy, vy))
        maxSpeedSq == Mul(maxSpeed, maxSpeed)
        scale == DivFine(maxSpeed, Sqrt(speedSq))
    IN  IF Gt(speedSq, maxSpeedSq)
        THEN [vx |-> MulFine(vx, scale), vy |-> MulFine(vy, scale)]
        ELSE [vx |-> vx, vy |-> vy]

\* an edge that stops a coordinate at the bound it crossed
Stopped(c, size) ==
    IF Lt(c, Neg(Margin)) THEN Neg(Margin)
    ELSE IF Gt(c, Add(size, Margin)) THEN Add(size, Margin)
    ELSE c

\* a coordinate after the wrap around the edges of _animate
Wrap(c, size) ==
    LET low == IF Lt(c, Neg(Margin)) THEN Add(size, Margin) ELSE c
    IN  IF Gt(low, Add(size, Margin)) THEN Neg(Margin) ELSE low

\* a mouse influence that acts wherever the pointer is, over the container
\* or not
InfluenceAnywhere(dot, m, o, deltaTime) ==
    LET influenceRadius == o.influenceRadius
        dx == Sub(m.mouseX, dot.x)
        dy == Sub(m.mouseY, dot.y)
        distanceSq == Add(Mul(dx, dx), Mul(dy, dy))
        influence == Mul(Sub(Scale, Div(Sqrt(distanceSq), influenceRadius)), dot.z)
    IN  IF o.reactive /\ Lt(distanceSq, Mul(influenceRadius, influenceRadius))
        THEN [vx |-> Mul(Mul(Mul(m.mouseSpeedX, influence), o.influenceStrength),
                         deltaTime),
              vy |-> Mul(Mul(Mul(m.mouseSpeedY, influence), o.influenceStrength),
                         deltaTime)]
        ELSE [vx |-> 0, vy |-> 0]

\* the change of one velocity component by the mouse
MouseInfluence(dot, m, o, deltaTime) ==
    LET influenceRadius == o.influenceRadius
        influenceRadiusSq == Mul(influenceRadius, influenceRadius)
        dx == Sub(m.mouseX, dot.x)
        dy == Sub(m.mouseY, dot.y)
        distanceSq == Add(Mul(dx, dx), Mul(dy, dy))
        distance == Sqrt(distanceSq)
        influence == Mul(Sub(Scale, Div(distance, influenceRadius)), dot.z)
    IN  IF o.reactive /\ m.isMouseOver /\ Lt(distanceSq, influenceRadiusSq)
        THEN [vx |-> Mul(Mul(Mul(m.mouseSpeedX, influence), o.influenceStrength),
                         deltaTime),
              vy |-> Mul(Mul(Mul(m.mouseSpeedY, influence), o.influenceStrength),
                         deltaTime)]
        ELSE [vx |-> 0, vy |-> 0]

\* the velocity of a dot after the mouse influence pull, the jitter of the
\* draws rx and ry, the friction and the speed limit
Forced(dot, pull, o, deltaTime, rx, ry) ==
    LimitSpeed(
        Mul(Add(Add(dot.vx, pull.vx),
                Mul(Mul(Sub(rx, 50), o.randomFactor), deltaTime)),
            Pow(o.friction, deltaTime)),
        Mul(Add(Add(dot.vy, pull.vy),
                Mul(Mul(Sub(ry, 50), o.randomFactor), deltaTime)),
            Pow(o.friction, deltaTime)),
        o.maxSpeed)

\* the dot that has taken the velocity v, moved by it and wrapped around the
\* edges
Integrated(dot, v, m, deltaTime) ==
    [dot EXCEPT
        !.vx = v.vx,
        !.vy = v.vy,
        !.x = Wrap(Add(dot.x, Mul(Mul(v.vx, dot.speedMultiplier), deltaTime)),
                   m.width),
        !.y = Wrap(Add(dot.y, Mul(Mul(v.vy, dot.speedMultiplier), deltaTime)),
                   m.height)]

\* the velocity of a dot after the mouse influence pull, the jitter and the
\* friction, with no limit to its speed
Unforced(dot, pull, o, deltaTime, rx, ry) ==
    [vx |-> Mul(Add(Add(dot.vx, pull.vx),
                    Mul(Mul(Sub(rx, 50), o.randomFactor), deltaTime)),
                Pow(o.friction, deltaTime)),
     vy |-> Mul(Add(Add(dot.vy, pull.vy),
                    Mul(Mul(Sub(ry, 50), o.randomFactor), deltaTime)),
                Pow(o.friction, deltaTime))]

\* a step that moves the dot before it limits its speed
MoveThenLimit(dot, m, o, deltaTime, rx, ry) ==
    Integrated(
        Integrated(dot,
                   Unforced(dot, MouseInfluence(dot, m, o, deltaTime), o,
                            deltaTime, rx, ry),
                   m, deltaTime),
        Forced(dot, MouseInfluence(dot, m, o, deltaTime), o, deltaTime, rx, ry),
        m, 0)

\* the body of the loop of _animate up to the call of _drawDot: the dot
\* after the update of its velocity and position.  m holds the mouse state
\* and the size of the canvas; rx and ry are the two random draws.
MoveDot(dot, m, o, deltaTime, rx, ry) ==
    Integrated(dot,
               Forced(dot, MouseInfluence(dot, m, o, deltaTime), o, deltaTime,
                      rx, ry),
               m, deltaTime)

(***************************************************************************)
(* The state of one DotWave instance and of the page around it.            *)
(***************************************************************************)
VARIABLES
    options,         \* this.options
    container,       \* this.container: "null", or the element
    canvas,          \* this.canvas: "null" or "canvas"
    ctx,             \* this.ctx: "null" or "2d"
    dots,            \* this.dots
    width,           \* this.width
    height,          \* this.height
    mouseX,          \* this.mouseX
    mouseY,          \* this.mouseY
    prevMouseX,      \* this.prevMouseX
    prevMouseY,      \* this.prevMouseY
    mouseSpeedX,     \* this.mouseSpeedX
    mouseSpeedY,     \* this.mouseSpeedY
    animationFrame,  \* this.animationFrame: 0 for null, or a request handle
    resizeTimeout,   \* this.resizeTimeout: 0 for null, or a timer handle
    lastFrameTime,   \* this.lastFrameTime, in milliseconds
    lastDeltaTimeMs, \* the deltaTimeMs of the last call of _animate
    isMouseOver,     \* this.isMouseOver
    now,             \* performance.now(), in milliseconds
    frames,          \* the handles of the animation frame requests pending
    timers,          \* the timeouts pending: the handle and the time it is due
    rect,            \* the size getBoundingClientRect reports for the container
    listeners,       \* the event listeners registered and not removed
    drawn,           \* the shapes the last pass of _animate filled, one per dot
    animateCalls,    \* how many times _animate was entered
    timerCalls,      \* how many times setTimeout was called
    updateCalls,     \* how many times updateOptions was called
    pointerCalls,    \* how many pointer events were delivered
    lastCall,        \* the last operation: its name, its argument, what it did
    angleCall        \* the last call of _lerpAngle made on its own: its
                     \* arguments and the angle it returned

vars ==
    <<options, container, canvas, ctx, dots, width, height, mouseX, mouseY,
      prevMouseX, prevMouseY, mouseSpeedX, mouseSpeedY, animationFrame,
      resizeTimeout, lastFrameTime, lastDeltaTimeMs, isMouseOver, now, frames,
      timers, rect, listeners, drawn, animateCalls, timerCalls, updateCalls,
      pointerCalls, lastCall, angleCall>>

\* the state as one record, for the handlers below to transform
State ==
    [options |-> options, container |-> container, canvas |-> canvas,
     ctx |-> ctx, dots |-> dots, width |-> width, height |-> height,
     mouseX |-> mouseX, mouseY |-> mouseY, prevMouseX |-> prevMouseX,
     prevMouseY |-> prevMouseY, mouseSpeedX |-> mouseSpeedX,
     mouseSpeedY |-> mouseSpeedY, animationFrame |-> animationFrame,
     resizeTimeout |-> resizeTimeout, lastFrameTime |-> lastFrameTime,
     lastDeltaTimeMs |-> lastDeltaTimeMs,
     isMouseOver |-> isMouseOver, now |-> now, frames |-> frames,
     timers |-> timers, rect |-> rect, listeners |-> listeners,
     drawn |-> drawn, animateCalls |-> animateCalls,
     timerCalls |-> timerCalls, updateCalls |-> updateCalls,
     pointerCalls |-> pointerCalls,
     lastCall |-> lastCall]

\* _lerpAngle was not called on its own
NoAngleCall == [called |-> FALSE]

\* the next state is S
Becomes(S) ==
    /\ options' = S.options /\ container' = S.container /\ canvas' = S.canvas
    /\ ctx' = S.ctx /\ dots' = S.dots /\ width' = S.width /\ height' = S.height
    /\ mouseX' = S.mouseX /\ mouseY' = S.mouseY
    /\ prevMouseX' = S.prevMouseX /\ prevMouseY' = S.prevMouseY
    /\ mouseSpeedX' = S.mouseSpeedX /\ mouseSpeedY' = S.mouseSpeedY
    /\ animationFrame' = S.animationFrame /\ resizeTimeout' = S.resizeTimeout
    /\ lastFrameTime' = S.lastFrameTime /\ isMouseOver' = S.isMouseOver
    /\ lastDeltaTimeMs' = S.lastDeltaTimeMs
    /\ now' = S.now /\ frames' = S.frames /\ timers' = S.timers
    /\ rect' = S.rect /\ listeners' = S.listeners /\ drawn' = S.drawn
    /\ animateCalls' = S.animateCalls /\ timerCalls' = S.timerCalls
    /\ updateCalls' = S.updateCalls /\ pointerCalls' = S.pointerCalls
    /\ lastCall' = [S.lastCall EXCEPT !.stepped = S.animateCalls # animateCalls]
    /\ angleCall' = angleCall

\* the variables hold the state S
Starts(S) ==
    /\ options = S.options /\ container = S.container /\ canvas = S.canvas
    /\ ctx = S.ctx /\ dots = S.dots /\ width = S.width /\ height = S.height
    /\ mouseX = S.mouseX /\ mouseY = S.mouseY
    /\ prevMouseX = S.prevMouseX /\ prevMouseY = S.prevMouseY
    /\ mouseSpeedX = S.mouseSpeedX /\ mouseSpeedY = S.mouseSpeedY
    /\ animationFrame = S.animationFrame /\ resizeTimeout = S.resizeTimeout
    /\ lastFrameTime = S.lastFrameTime /\ isMouseOver = S.isMouseOver
    /\ lastDeltaTimeMs = S.lastDeltaTimeMs
    /\ now = S.now /\ frames = S.frames /\ timers = S.timers
    /\ rect = S.rect /\ listeners = S.listeners /\ drawn = S.drawn
    /\ animateCalls = S.animateCalls /\ timerCalls = S.timerCalls
    /\ updateCalls = S.updateCalls /\ pointerCalls = S.pointerCalls
    /\ lastCall = S.lastCall
    /\ angleCall = NoAngleCall

\* what lastCall records of an operation: its name, its argument, whether it
\* raised an exception, whether it reached _createDots and (filled in by
\* Becomes) whether it entered _animate
Call(op, arg, threw, created) ==
    [op |-> op, arg |-> arg, threw |-> threw, created |-> created,
     stepped |-> FALSE]

NoArg == << >>

\* the operation op returns with the result R: its state becomes the state
\* of the instance
Returns(R, op, arg, created) ==
    Becomes([R.state EXCEPT !.lastCall = Call(op, arg, R.threw, created)])

ReturnsCreated(R, op, arg) == Returns(R, op, arg, R.created)

(***************************************************************************)
(* The handlers, as functions from state to state.                         *)
(***************************************************************************)
\* the shorter side of Math.min(currentTime - this.lastFrameTime, 32)
FrameCap == 32

\* the four listeners _addEventListeners registers: each is a new function
\* made by bind
BoundListeners(el) ==
    {[target |-> el, type |-> "mousemove", fn |-> "_handleMouseMove", bound |-> TRUE],
     [target |-> el, type |-> "mouseenter", fn |-> "_handleMouseEnter", bound |-> TRUE],
     [target |-> el, type |-> "mouseleave", fn |-> "_handleMouseLeave", bound |-> TRUE],
     [target |-> "window", type |-> "resize", fn |-> "_handleResize", bound |-> TRUE]}

\* the four listeners destroy asks to remove: the methods themselves
UnboundListeners(el) ==
    {[target |-> el, type |-> "mousemove", fn |-> "_handleMouseMove", bound |-> FALSE],
     [target |-> el, type |-> "mouseenter", fn |-> "_handleMouseEnter", bound |-> FALSE],
     [target |-> el, type |-> "mouseleave", fn |-> "_handleMouseLeave", bound |-> FALSE],
     [target |-> "window", type |-> "resize", fn |-> "_handleResize", bound |-> FALSE]}

\* a listener for this type of event is registered
Listening(type) == \E l \in listeners : l.type = type

\* a rescale that leaves a coordinate where the scaling put it
Unclamped(c, scale, newSize) == Mul(c, scale)

\* a coordinate of a dot after the rescale and clamp of _updateCanvasSize
Rescale(c, scale, newSize) ==
    LET scaled == Mul(c, scale)
        low == IF Lt(scaled, Neg(Margin)) THEN Neg(Margin) ELSE scaled
    IN  IF Gt(low, Add(newSize, Margin)) THEN Add(newSize, Margin) ELSE low

\* a rescale that also scales the size of the dot with the canvas
ScaleDotAndRadius(dot, scaleX, scaleY, newWidth, newHeight) ==
    [dot EXCEPT !.x = Rescale(dot.x, scaleX, newWidth),
                !.y = Rescale(dot.y, scaleY, newHeight),
                !.radius = Mul(dot.radius, scaleX)]

\* the body of the loop of _updateCanvasSize: a dot after the rescale
ScaleDot(dot, scaleX, scaleY, newWidth, newHeight) ==
    [dot EXCEPT !.x = Rescale(dot.x, scaleX, newWidth),
                !.y = Rescale(dot.y, scaleY, newHeight)]

\* DotWave.prototype._updateCanvasSize; the field threw tells that the call
\* raised a TypeError (this.canvas is null)
UpdateCanvasSize(S) ==
    LET newWidth == S.rect.width
        newHeight == S.rect.height
        oldWidth == IF Truthy(S.width) THEN S.width ELSE newWidth
        oldHeight == IF Truthy(S.height) THEN S.height ELSE newHeight
        sized == [S EXCEPT !.width = newWidth, !.height = newHeight]
        scaleX == Div(newWidth, oldWidth)
        scaleY == Div(newHeight, oldHeight)
        moved ==
            IF Len(S.dots) > 0 /\ (oldWidth # newWidth \/ oldHeight # newHeight)
            THEN [i \in 1..Len(S.dots) |->
                    ScaleDot(S.dots[i], scaleX, scaleY, newWidth, newHeight)]
            ELSE S.dots
    IN  IF S.canvas = "null" THEN [state |-> sized, threw |-> TRUE]
        ELSE [state |-> [sized EXCEPT
                            !.dots = moved,
                            !.mouseX = Div(newWidth, 2 * Scale),
                            !.mouseY = Div(newHeight, 2 * Scale),
                            !.prevMouseX = Div(newWidth, 2 * Scale),
                            !.prevMouseY = Div(newHeight, 2 * Scale)],
              threw |-> FALSE]

\* the body of the loop of _animate for the dot i: the dot as it leaves the
\* iteration, and the shape drawn for it
Shown(ds, i, m, o, deltaTimeMs, stream) ==
    DrawDot(MoveDot(ds[i], m, o, Div(deltaTimeMs, 10),
                    Draw(stream, 2 * i - 1), Draw(stream, 2 * i)),
            o, deltaTimeMs)

\* the dots and the shapes of a sequence of iterations
Split(shown) ==
    [dots |-> [i \in DOMAIN shown |-> shown[i].dot],
     drawn |-> [i \in DOMAIN shown |-> shown[i].cmd]]

\* the loop of _animate over the dots: the dots and the shapes
AnimateDots(ds, m, o, deltaTimeMs, stream) ==
    Split([i \in 1..Len(ds) |-> Shown(ds, i, m, o, deltaTimeMs, stream)])

\* the milliseconds _animate takes as passed since the last frame
DeltaTimeMs(S) == Min(S.now - S.lastFrameTime, FrameCap)

\* the mouse speed after the decay of a frame
Decay(speed, o, deltaTimeMs) ==
    IF o.reactive THEN Mul(speed, Pow(o.mouseSpeedDecay, Div(deltaTimeMs, 10)))
    ELSE speed

\* _animate up to the first use of the drawing context: the next frame is
\* requested, the clock read and the mouse speed decayed
Entered(S, deltaTimeMs) ==
    [S EXCEPT
        !.animationFrame = S.animateCalls + 1,
        !.frames = S.frames \cup {S.animateCalls + 1},
        !.animateCalls = S.animateCalls + 1,
        !.lastFrameTime = S.now,
        !.lastDeltaTimeMs = deltaTimeMs,
        !.mouseSpeedX = Decay(S.mouseSpeedX, S.options, deltaTimeMs),
        !.mouseSpeedY = Decay(S.mouseSpeedY, S.options, deltaTimeMs)]

\* the state with the dots and the shapes of a pass over the dots
Rendered(S, pass) == [S EXCEPT !.dots = pass.dots, !.drawn = pass.drawn]

\* _animate from the first use of the drawing context on
Drawn(entered, deltaTimeMs, stream) ==
    IF entered.ctx = "null" THEN [state |-> entered, threw |-> TRUE]
    ELSE [state |-> Rendered(entered,
                             AnimateDots(entered.dots, entered, entered.options,
                                         deltaTimeMs, stream)),
          threw |-> FALSE]

\* DotWave.prototype._animate, entered at time S.now; the field threw tells
\* that the call raised a TypeError (this.ctx is null)
Animate(S, stream) == Drawn(Entered(S, DeltaTimeMs(S)), DeltaTimeMs(S), stream)

\* a handler that takes the displacement of the pointer as its speed,
\* however large
HandleMouseMoveUnlimited(S, ex, ey) ==
    IF ~S.isMouseOver THEN S
    ELSE [S EXCEPT
            !.prevMouseX = S.mouseX,
            !.prevMouseY = S.mouseY,
            !.mouseX = ex,
            !.mouseY = ey,
            !.mouseSpeedX = Sub(ex, S.mouseX),
            !.mouseSpeedY = Sub(ey, S.mouseY)]

\* DotWave.prototype._handleMouseMove; ex and ey are e.clientX - rect.left
\* and e.clientY - rect.top
HandleMouseMove(S, ex, ey) ==
    LET rawSpeedX == Sub(ex, S.mouseX)
        rawSpeedY == Sub(ey, S.mouseY)
        rawSpeed == Sqrt(Add(Mul(rawSpeedX, rawSpeedX), Mul(rawSpeedY, rawSpeedY)))
        scale == DivFine(S.options.maxMouseSpeed, rawSpeed)
        limited == Gt(rawSpeed, S.options.maxMouseSpeed)
    IN  IF ~S.isMouseOver THEN S
        ELSE [S EXCEPT
            !.prevMouseX = S.mouseX,
            !.prevMouseY = S.mouseY,
            !.mouseX = ex,
            !.mouseY = ey,
            !.mouseSpeedX = IF limited THEN MulFine(rawSpeedX, scale) ELSE rawSpeedX,
            !.mouseSpeedY = IF limited THEN MulFine(rawSpeedY, scale) ELSE rawSpeedY]

\* DotWave.prototype._handleMouseEnter
HandleMouseEnter(S) == [S EXCEPT
            !.isMouseOver = TRUE]

\* DotWave.prototype._handleMouseLeave
HandleMouseLeave(S) ==
    [S EXCEPT
            !.isMouseOver = FALSE,
            !.mouseSpeedX = Mul(S.mouseSpeedX, 50),
            !.mouseSpeedY = Mul(S.mouseSpeedY, 50)]

\* the delay of the timeout of _handleResize, in milliseconds
ResizeDelay == 250

\* clearTimeout(handle): the timeouts left pending
ClearTimeout(pending, handle) == {tm \in pending : tm.handle # handle}

\* a resize handler that sets a timeout for every event and clears none
HandleResizeUndebounced(S) ==
    [S EXCEPT
            !.timers = S.timers \cup
                       {[handle |-> S.timerCalls + 1, due |-> S.now + ResizeDelay]},
            !.resizeTimeout = S.timerCalls + 1,
            !.timerCalls = S.timerCalls + 1]

\* DotWave.prototype._handleResize, called at the time S.now
HandleResize(S) ==
    [S EXCEPT
            !.timers = ClearTimeout(S.timers, S.resizeTimeout) \cup
                       {[handle |-> S.timerCalls + 1, due |-> S.now + ResizeDelay]},
            !.resizeTimeout = S.timerCalls + 1,
            !.timerCalls = S.timerCalls + 1]

\* DotWave.prototype.pause
PauseOf(S) ==
    IF S.animationFrame # 0
    THEN [S EXCEPT
            !.frames = S.frames \ {S.animationFrame},
            !.animationFrame = 0]
    ELSE S

\* a resume that does not look whether the animation is running
ResumeUnguarded(S, elapsed, stream) ==
    LET t == S.now + elapsed
    IN  Animate([S EXCEPT !.now = t, !.lastFrameTime = t], stream)

\* a resume that leaves the frame clock where the last frame set it
ResumeWithoutClock(S, elapsed, stream) ==
    IF S.animationFrame = 0
    THEN Animate([S EXCEPT !.now = S.now + elapsed], stream)
    ELSE [state |-> S, threw |-> FALSE]

\* DotWave.prototype.resume, called elapsed milliseconds after the clock was
\* last read
ResumeOf(S, elapsed, stream) ==
    IF S.animationFrame = 0
    THEN LET t == S.now + elapsed
         IN  Animate([S EXCEPT
            !.now = t,
            !.lastFrameTime = t], stream)
    ELSE [state |-> S, threw |-> FALSE]

\* DotWave.prototype.destroy
DestroyOf(S) ==
    LET stopped ==
            IF S.animationFrame # 0
            THEN [S EXCEPT
            !.frames = S.frames \ {S.animationFrame}]
            ELSE S
    IN  IF S.container = "null" THEN [state |-> stopped, threw |-> TRUE]
        ELSE [state |-> [stopped EXCEPT
            !.listeners = S.listeners \ UnboundListeners(S.container),
            !.canvas = "null",
            !.ctx = "null",
            !.dots = << >>],
              threw |-> FALSE]

\* a change of the options that forgets that numDots sizes the field
RecreateKeysWithoutNumDots == {"dotStretch", "rotSmoothing"}

\* a change of the options that forgets that rotSmoothing shapes the dots
RecreateKeysWithoutRotSmoothing == {"numDots", "dotStretch"}

\* the keys whose presence makes updateOptions call _createDots
RecreateKeys == {"numDots", "dotStretch", "rotSmoothing"}

\* updateOptions calls _createDots for this argument
Recreates(arg) == \E key \in RecreateKeys : Defined(arg, key)

\* DotWave.prototype.updateOptions; the field created tells that the call
\* reached _createDots
UpdateOptionsOf(S, arg, stream) ==
    LET merged == MergeOptions(S.options, OrEmpty(arg))
        set == [S EXCEPT
            !.options = merged,
            !.updateCalls = S.updateCalls + 1]
    IN  IF arg = Undefined THEN [state |-> set, threw |-> TRUE, created |-> FALSE]
        ELSE IF Recreates(arg)
        THEN [state |-> [set EXCEPT
            !.dots = CreateDots(merged, S.width, S.height, stream)],
              threw |-> FALSE, created |-> TRUE]
        ELSE [state |-> set, threw |-> FALSE, created |-> FALSE]

\* the constructor with DotWave.prototype.init, run at time 0 on a page in
\* which the container, when it exists, has the size r
Construct(user, r, stream) ==
    LET o == MergeOptions(Defaults, OrEmpty(user))
        el == GetContainer(o.container)
        fresh ==
            [options |-> o, container |-> el, canvas |-> "null", ctx |-> "null",
             dots |-> << >>, width |-> 0, height |-> 0, mouseX |-> 0,
             mouseY |-> 0, prevMouseX |-> 0, prevMouseY |-> 0,
             mouseSpeedX |-> 0, mouseSpeedY |-> 0, animationFrame |-> 0,
             resizeTimeout |-> 0, lastFrameTime |-> 0, lastDeltaTimeMs |-> 0,
             isMouseOver |-> FALSE,
             now |-> 0, frames |-> {}, timers |-> {}, rect |-> r,
             listeners |-> {}, drawn |-> << >>, animateCalls |-> 0,
             timerCalls |-> 0, updateCalls |-> 0, pointerCalls |-> 0,
             lastCall |-> [Call("init", user, FALSE, el # "null")
                            EXCEPT !.stepped = el # "null"]]
        sized == UpdateCanvasSize(
                     [fresh EXCEPT
            !.canvas = "canvas",
            !.ctx = "2d"]).state
        filled == [sized EXCEPT
            !.dots = CreateDots(o, sized.width, sized.height, stream),
            !.listeners = BoundListeners(el),
            !.lastFrameTime = sized.now]
    IN  IF el = "null" THEN fresh ELSE Animate(filled, stream).state

(***************************************************************************)
(* The inputs of the model.                                                *)
(***************************************************************************)
RgbaRed ==
    <<"r", "g", "b", "a", "(", "255", ",", " ", "0", ",", " ", "0", ",", " ",
      "0.3", ")">>
RgbGreen == <<"r", "g", "b", "(", "0", ",", " ", "128", ",", " ", "0", ")">>
HexWhite == <<"#", "f", "f", "f">>
HexRed == <<"#", "f", "f", "0", "0", "0", "0">>
NamedBlue == <<"B", "l", "u", "e">>
NamedTeal == <<"t", "e", "a", "l">>
NamedConstructor == <<"c", "o", "n", "s", "t", "r", "u", "c", "t", "o", "r">>

\* the pages on which an instance is constructed: the options given to the
\* constructor and the size of the container they name
Pages ==
    {[options |-> [numDots |-> MaxDots],
      rect |-> [width |-> 20 * Scale, height |-> 10 * Scale]],
     [options |-> [container |-> "#missing", numDots |-> 1],
      rect |-> [width |-> 0, height |-> 0]],
     [options |-> [container |-> "#card1", numDots |-> 1, dotColor |-> RgbaRed,
                   dotStretch |-> FALSE, reactive |-> FALSE,
                   randomFactor |-> 80],
      rect |-> [width |-> 0, height |-> 10 * Scale]],
     [options |-> [container |-> "#card1", numDots |-> 1, dotColor |-> HexRed,
                   influenceRadius |-> 1000 * Scale,
                   influenceStrength |-> 5 * Scale, maxSpeed |-> 30 * Scale,
                   randomFactor |-> 0,
                   rotSmoothing |-> TRUE],
      rect |-> [width |-> 20 * Scale, height |-> 10 * Scale]]}

\* pages whose options lie outside the range their meaning gives them: an
\* influence radius of zero, a negative one, a negative friction
OddPages ==
    {[options |-> [container |-> "#card1", numDots |-> MaxDots,
                   influenceRadius |-> 0],
      rect |-> [width |-> 20 * Scale, height |-> 10 * Scale]],
     [options |-> [container |-> "#card1", numDots |-> MaxDots,
                   influenceRadius |-> 0 - 100 * Scale],
      rect |-> [width |-> 20 * Scale, height |-> 10 * Scale]],
     [options |-> [container |-> "#card1", numDots |-> 1,
                   friction |-> 0 - 50],
      rect |-> [width |-> 20 * Scale, height |-> 10 * Scale]]}

\* a page on which the pointer pushes the dots hard: a wide and strong
\* influence, a high speed limit
StrongPages ==
    {[options |-> [container |-> "#card1", numDots |-> MaxDots,
                   influenceRadius |-> 1000 * Scale,
                   influenceStrength |-> 20 * Scale,
                   maxSpeed |-> 10 * Scale],
      rect |-> [width |-> 20 * Scale, height |-> 10 * Scale]]}

\* pages that differ in the limit of the stretch: none that binds, one
\* that binds, and a limit of zero
StretchPages ==
    {[options |-> [container |-> "#card1", numDots |-> MaxDots],
      rect |-> [width |-> 20 * Scale, height |-> 10 * Scale]],
     [options |-> [container |-> "#card1", numDots |-> MaxDots,
                   dotMaxStretch |-> 50],
      rect |-> [width |-> 20 * Scale, height |-> 10 * Scale]],
     [options |-> [container |-> "#card1", numDots |-> MaxDots,
                   dotMaxStretch |-> 0],
      rect |-> [width |-> 20 * Scale, height |-> 10 * Scale]]}

\* the arguments given to updateOptions
Partials ==
    {[numDots |-> MaxDots - 1],
     [dotStretch |-> FALSE, dotColor |-> RgbGreen],
     [rotSmoothing |-> TRUE, dotColor |-> NamedBlue],
     [dotColor |-> NamedTeal, dotMinSize |-> 2 * Scale, friction |-> 90,
      influenceStrength |-> 2 * Scale, maxSpeed |-> 50],
     [dotColor |-> NamedConstructor],
     Undefined}

\* the sizes of the container
RectSizes ==
    {[width |-> 20 * Scale, height |-> 10 * Scale],
     [width |-> 40 * Scale, height |-> 20 * Scale],
     [width |-> 0, height |-> 10 * Scale],
     [width |-> 0, height |-> 0]}

\* the positions of the pointer, relative to the container
MousePoints == {<<0, 0>>, <<30 * Scale, 5 * Scale>>}

\* the milliseconds between two readings of the clock
ElapsedMs == {10, 40}

\* the angles given to _lerpAngle: within a turn, at its ends, at the half
\* turn, near either side of the zero, and beyond a turn on either side
Angles ==
    {0, 10, Pi \div 2, Pi - 1, Pi, Pi + 1, TwoPi - 10, TwoPi - 1, TwoPi,
     0 - 10, 0 - Pi, 7 * Scale, 0 - 7 * Scale}

\* the factors given to _lerpAngle, in [0, 1]
Factors == {0, 25, 50, Scale}

\* the milliseconds between two resize events of a burst
BurstGaps == {100, 249}

(***************************************************************************)
(* The state machine.                                                      *)
(***************************************************************************)
Init ==
    \E page \in Pages, stream \in RandomStreams :
        Starts(Construct(page.options, page.rect, stream))

\* the browser runs the frame callback of a pending request, in a run of at
\* most limit calls of _animate
FrameCallbackWithin(limit) ==
    \E handle \in frames, elapsed \in ElapsedMs, stream \in RandomStreams :
        /\ animateCalls < limit
        /\ Returns(Animate([State EXCEPT !.frames = frames \ {handle},
                                         !.now = now + elapsed], stream),
                   "_animate", NoArg, FALSE)

\* the state as a pointer event is delivered
Pointed == [State EXCEPT !.pointerCalls = pointerCalls + 1]

\* the pointer moves over the container
MouseMove ==
    \E p \in MousePoints :
        /\ Listening("mousemove")
        /\ pointerCalls < MaxPointer
        /\ Becomes([HandleMouseMove(Pointed, p[1], p[2]) EXCEPT
            !.lastCall = Call("_handleMouseMove", NoArg, FALSE, FALSE)])

\* the pointer enters the container
MouseEnter ==
    /\ Listening("mouseenter")
    /\ pointerCalls < MaxPointer
    /\ Becomes([HandleMouseEnter(Pointed) EXCEPT
            !.lastCall = Call("_handleMouseEnter", NoArg, FALSE, FALSE)])

\* the pointer leaves the container
MouseLeave ==
    /\ Listening("mouseleave")
    /\ pointerCalls < MaxPointer
    /\ Becomes([HandleMouseLeave(Pointed) EXCEPT
            !.lastCall = Call("_handleMouseLeave", NoArg, FALSE, FALSE)])

\* the later of two times
Later(a, b) == IF a > b THEN a ELSE b

\* The window is resized and the container takes the size r, gap
\* milliseconds after the clock was last read, in a run of at most limit
\* resize events.  A timeout that is due before that time runs before the
\* event.
WindowResizeWithin(limit, gaps) ==
    \E r \in RectSizes, gap \in gaps :
        /\ Listening("resize")
        /\ timerCalls < limit
        /\ \A tm \in timers : now + gap < tm.due
        /\ Becomes([HandleResize([State EXCEPT
            !.rect = r,
            !.now = now + gap]) EXCEPT
            !.lastCall = Call("_handleResize", NoArg, FALSE, FALSE)])

\* the window is resized at the time the clock was last read
WindowResize == WindowResizeWithin(MaxTimers, {0})

\* a timeout of _handleResize expires: its callback runs when it is due, or
\* at once when that time has passed
ResizeTimer ==
    \E tm \in timers :
        Returns(UpdateCanvasSize([State EXCEPT !.timers = timers \ {tm},
                                               !.now = Later(now, tm.due)]),
                "_updateCanvasSize", NoArg, FALSE)

Pause ==
    Becomes([PauseOf(State) EXCEPT
            !.lastCall = Call("pause", NoArg, FALSE, FALSE)])

ResumeWithin(limit) ==
    \E elapsed \in ElapsedMs, stream \in RandomStreams :
        /\ animationFrame = 0 => animateCalls < limit
        /\ Returns(ResumeOf(State, elapsed, stream), "resume", NoArg, FALSE)

UpdateOptions ==
    \E arg \in Partials, stream \in RandomStreams :
        /\ updateCalls < MaxUpdates
        /\ ReturnsCreated(UpdateOptionsOf(State, arg, stream), "updateOptions", arg)

Destroy == Returns(DestroyOf(State), "destroy", NoArg, FALSE)

FrameCallback == FrameCallbackWithin(MaxSteps)

\* the simulation under the pointer: frames and pointer events
Next ==
    \/ FrameCallback
    \/ MouseMove
    \/ MouseEnter
    \/ MouseLeave

Spec == Init /\ [][Next]_vars

\* the simulation under resizes: frames, resizes of the window and the
\* timeouts they set
NextResize ==
    \/ FrameCallback
    \/ WindowResize
    \/ ResizeTimer

SpecResize == Init /\ [][NextResize]_vars

\* the lifecycle: frames and the public methods, in runs one call of
\* _animate shorter
NextLife ==
    \/ FrameCallbackWithin(MaxSteps - 1)
    \/ Pause
    \/ ResumeWithin(MaxSteps - 1)
    \/ UpdateOptions
    \/ Destroy

SpecLife == Init /\ [][NextLife]_vars

\* an instance constructed with options out of range
InitOdd ==
    \E page \in OddPages, stream \in RandomStreams :
        Starts(Construct(page.options, page.rect, stream))

\* the simulation under the pointer, from options out of range
SpecOdd == InitOdd /\ [][Next]_vars

\* an instance constructed on a page of strong influence
InitStrong ==
    \E page \in StrongPages, stream \in RandomStreams :
        Starts(Construct(page.options, page.rect, stream))

\* the simulation under the pointer, with a strong influence
SpecStrong == InitStrong /\ [][Next]_vars

\* an instance constructed with one of the limits of the stretch
InitStretch ==
    \E page \in StretchPages, stream \in RandomStreams :
        Starts(Construct(page.options, page.rect, stream))

\* the simulation under the pointer, for the limits of the stretch
SpecStretch == InitStretch /\ [][Next]_vars

\* the events of the page and destroy: frames, pointer events, resizes of
\* the window, the timeouts they set, and the call of destroy
NextTeardown ==
    \/ FrameCallbackWithin(MaxSteps - 1)
    \/ MouseMove
    \/ MouseEnter
    \/ MouseLeave
    \/ WindowResize
    \/ ResizeTimer
    \/ Destroy

SpecTeardown == Init /\ [][NextTeardown]_vars

\* _lerpAngle is called with two angles and a factor
LerpAngleCall ==
    \E current \in Angles, target \in Angles, factor \in Factors :
        /\ angleCall' = [called |-> TRUE, current |-> current, target |-> target,
                         factor |-> factor,
                         result |-> LerpAngle(current, target, factor)]
        /\ UNCHANGED <<options, container, canvas, ctx, dots, width, height,
                       mouseX, mouseY, prevMouseX, prevMouseY, mouseSpeedX,
                       mouseSpeedY, animationFrame, resizeTimeout,
                       lastFrameTime, lastDeltaTimeMs, isMouseOver, now, frames, timers, rect,
                       listeners, drawn, animateCalls, timerCalls, updateCalls,
                       pointerCalls, lastCall>>

\* the interpolation of angles on its own, over Angles and Factors
SpecAngles == Init /\ [][LerpAngleCall]_vars

\* the simulation under bursts of resizes: frames, resize events that follow
\* one another or the last frame by less than the delay, and the timeouts
NextDebounce ==
    \/ FrameCallbackWithin(MaxSteps - 1)
    \/ WindowResizeWithin(MaxBurst, BurstGaps)
    \/ ResizeTimer

SpecDebounce == Init /\ [][NextDebounce]_vars

\* the simulation under the events of the page: frames, pointer events,
\* resizes of the window and the timeouts they set, in runs one call of
\* _animate shorter
NextEvents ==
    \/ FrameCallbackWithin(MaxSteps - 1)
    \/ MouseMove
    \/ MouseEnter
    \/ MouseLeave
    \/ WindowResize
    \/ ResizeTimer

SpecEvents == Init /\ [][NextEvents]_vars

\* the simulation with all its inputs, the changes of the options among
\* them, in runs one call of _animate shorter
NextInputs ==
    \/ FrameCallbackWithin(MaxSteps - 1)
    \/ MouseMove
    \/ MouseEnter
    \/ MouseLeave
    \/ WindowResize
    \/ ResizeTimer
    \/ UpdateOptions

SpecInputs == Init /\ [][NextInputs]_vars

\* ---------------------------------------------------------------------
\* Properties
\* ---------------------------------------------------------------------

\* the attributes a dot is given at its creation
Attributes(dot) ==
    [z |-> dot.z, radius |-> dot.radius, alpha |-> dot.alpha,
     speedMultiplier |-> dot.speedMultiplier]

\* C1: from its creation until the field is recreated as a whole, a dot keeps
\* its z, radius, alpha and speedMultiplier: every transition that does not
\* call _createDots (a frame, a pointer event, a resize, a change of the
\* options that recreates nothing) leaves the four attributes of every dot
\* as they were.
C1_AttributesImmutable ==
    [][~lastCall'.created =>
         /\ Len(dots') = Len(dots)
         /\ \A i \in 1..Len(dots) : Attributes(dots'[i]) = Attributes(dots[i])]_vars

\* a resize has rescaled a field of dots that frames, pointer events and a
\* change of the options have acted on
C1_Witness ==
    /\ lastCall.op = "_updateCanvasSize"
    /\ Len(dots) > 0
    /\ width = 2 * 20 * Scale
    /\ animateCalls >= 2
    /\ updateCalls >= 1
    /\ pointerCalls >= 1

\* a state that a call of _animate has just left (init and resume call it
\* too)
AfterStep == lastCall.stepped /\ ~lastCall.threw

\* vx^2 + vy^2 <= limit^2, computed exactly
WithinSpeed(dot, limit) ==
    /\ IsFinite(dot.vx) /\ IsFinite(dot.vy)
    /\ dot.vx * dot.vx + dot.vy * dot.vy <= limit * limit

\* the rounding of the rescale: one unit for each of the two roundings (the
\* factor, the product) that follow the square root
SpeedEps == 1 + 1

\* C2 as stated: after every step the velocity of every dot satisfies
\* vx^2 + vy^2 <= maxSpeed^2.
C2_SpeedWithinLimitExactly ==
    AfterStep => \A i \in 1..Len(dots) : WithinSpeed(dots[i], options.maxSpeed)

\* C2: after every step the speed of every dot is at most maxSpeed up to the
\* rounding of the rescale: sqrt(vx^2 + vy^2) <= maxSpeed + eps.
C2_SpeedWithinLimit ==
    AfterStep =>
        \A i \in 1..Len(dots) : WithinSpeed(dots[i], options.maxSpeed + SpeedEps)

\* a step has pushed a dot with the pointer and left it at the speed limit
C2_Witness ==
    /\ lastCall.op = "_animate"
    /\ isMouseOver
    /\ \E i \in 1..Len(dots) :
          /\ WithinSpeed(dots[i], options.maxSpeed + SpeedEps)
          /\ ~WithinSpeed(dots[i], options.maxSpeed - SpeedEps)

\* -margin <= c <= size + margin
InBand(c, size) == Ge(c, 0 - Margin) /\ Le(c, Add(size, Margin))

\* C3: in every state reached after the creation of the dots by steps and
\* resizes, every dot has -50 <= x <= width + 50 and -50 <= y <= height + 50.
C3_PositionWithinBounds ==
    \A i \in 1..Len(dots) : InBand(dots[i].x, width) /\ InBand(dots[i].y, height)

\* what the code does keep: a coordinate is within the band or is NaN
C3_WithinBoundsOrNaN ==
    \A i \in 1..Len(dots) :
        /\ IsNaN(dots[i].x) \/ InBand(dots[i].x, width)
        /\ IsNaN(dots[i].y) \/ InBand(dots[i].y, height)

\* draws of Math.random that make the jitter of a step zero
NoJitter == <<Scale \div 2>>

\* the state after a frame that comes ms milliseconds after the last one
Stepped(S, ms) == Animate([S EXCEPT !.now = S.now + ms], NoJitter).state

\* equal up to the rounding of a few operations
FrameTol == Scale \div 10

Close(a, b) == a = b \/ (IsFinite(a) /\ IsFinite(b) /\ Abs(a - b) <= FrameTol)

\* C4: jitter aside, from any state one step of dt = 2 gives every dot the
\* velocity and the position that two steps of dt = 1 give it.
C4_FrameRateIndependent ==
    (ctx # "null") =>
        LET one == Stepped(State, 2 * 10).dots
            two == Stepped(Stepped(State, 10), 10).dots
        IN  \A i \in 1..Len(dots) :
                /\ Close(one[i].vx, two[i].vx) /\ Close(one[i].vy, two[i].vy)
                /\ Close(one[i].x, two[i].x) /\ Close(one[i].y, two[i].y)

\* the instance is initialised and not destroyed
Alive == canvas # "null"

\* C5: from a successful initialisation on, whatever frames, resizes,
\* pointer events and changes of the options happen, the number of dots is
\* the numDots of the current options, and the field is only replaced as a
\* whole: its length changes in no transition other than a call of
\* _createDots.
C5_DotCountIsNumDots ==
    /\ [](Alive => Len(dots) = options.numDots)
    /\ [][Len(dots') # Len(dots) => lastCall'.created]_vars

\* a change of numDots has replaced a field of another size, after frames
C5_Witness ==
    /\ Alive
    /\ lastCall.op = "updateOptions"
    /\ Defined(lastCall.arg, "numDots")
    /\ lastCall.created
    /\ options.container = Defaults.container
    /\ Len(dots) = MaxDots - 1
    /\ animateCalls >= 2

\* the options that size or shape the field
FieldOptions == {"numDots", "dotStretch", "rotSmoothing"}

\* C6: a call of updateOptions whose argument defines numDots, dotStretch or
\* rotSmoothing replaces the dots by a newly created field for the merged
\* options; a call that defines none of them leaves every dot as it was; in
\* both cases the options hold the new values, and the shapes that a step
\* draws are coloured from the options of that time.
C6_UpdateOptionsRecreates ==
    /\ [][lastCall'.op = "updateOptions" =>
            LET arg == lastCall'.arg
                given == DOMAIN arg \cap DOMAIN options
            IN  /\ \A key \in given : options'[key] = arg[key]
                /\ \A key \in DOMAIN options \ given : options'[key] = options[key]
                /\ IF FieldOptions \cap DOMAIN arg # {}
                   THEN /\ lastCall'.created
                        /\ \E stream \in RandomStreams :
                              dots' = CreateDots(options', width, height, stream)
                   ELSE ~lastCall'.created /\ dots' = dots]_vars
    /\ [](AfterStep =>
            /\ Len(drawn) = Len(dots)
            /\ \A i \in 1..Len(dots) :
                  drawn[i].fillStyle = GetRGBA(options.dotColor, dots[i].alpha))

\* a change of rotSmoothing has replaced the dots of a running field by dots
\* that carry both angles
C6_Witness ==
    /\ Alive
    /\ lastCall.op = "updateOptions"
    /\ Defined(lastCall.arg, "rotSmoothing")
    /\ lastCall.created
    /\ animateCalls >= 2
    /\ Len(dots) = MaxDots
    /\ \A i \in 1..Len(dots) : "targetAngle" \in DOMAIN dots[i]

\* the instance has been destroyed
Destroyed == container # "null" /\ canvas = "null"

\* after destroy no listener of the instance is registered
C7_NoListenerLeft == Destroyed => listeners = {}

\* after destroy no call of _animate is scheduled
C7_NoFrameLeft == Destroyed => frames = {}

\* after destroy the field stays empty
C7_DotsStayEmpty == Destroyed => Len(dots) = 0

\* C7: after destroy, whatever is called next, no step or render runs, no
\* handler fires and the field stays empty: no call of _animate is scheduled
\* or made, no listener is registered, and dots is empty.
C7_DestroyedIsInert ==
    /\ C7_NoListenerLeft
    /\ C7_NoFrameLeft
    /\ C7_DotsStayEmpty
    /\ Destroyed => lastCall.op = "destroy" \/ ~lastCall.stepped

\* C8: while the instance is alive, a pause leaves no call of _animate
\* scheduled, so that no step runs until the next resume; a resume of a
\* paused instance runs a step and schedules the next; a resume of a running
\* instance and a pause of a paused one do nothing; at most one call of
\* _animate is ever scheduled.
C8_PauseResume ==
    /\ [](Alive => /\ Cardinality(frames) <= 1
                   /\ animationFrame = 0 => frames = {})
    /\ [][Alive /\ lastCall'.op = "pause" =>
            /\ animationFrame' = 0 /\ frames' = {}
            /\ dots' = dots /\ animateCalls' = animateCalls]_vars
    /\ [][Alive /\ animationFrame = 0 /\ lastCall'.op # "resume" =>
            animateCalls' = animateCalls /\ frames' = {}]_vars
    /\ [][Alive /\ lastCall'.op = "resume" =>
            IF animationFrame = 0
            THEN /\ animateCalls' = animateCalls + 1
                 /\ animationFrame' # 0 /\ frames' = {animationFrame'}
                 /\ lastFrameTime' = now'
            ELSE /\ animateCalls' = animateCalls
                 /\ frames' = frames /\ dots' = dots]_vars

\* a paused instance has been resumed: the resume has run a step and
\* scheduled the next
C8_Witness ==
    /\ Alive
    /\ lastCall.op = "resume"
    /\ lastCall.stepped
    /\ ~lastCall.threw
    /\ Len(dots) > 0
    /\ frames = {animationFrame}

\* the initialisation has failed: no container was found
Failed == container = "null"

\* C9: after a failed initialisation, whatever public methods are called,
\* there are no dots, no step runs and no error is raised.
C9_FailedInitIsInert ==
    Failed =>
        /\ Len(dots) = 0
        /\ animateCalls = 0 /\ frames = {}
        /\ ~lastCall.threw

\* the string is rgba(..., a) with a the decimal form of alpha
IsRgbaOfAlpha(c, alpha) ==
    /\ Len(c) > 6
    /\ SubSeq(c, 1, 5) = <<"r", "g", "b", "a", "(">>
    /\ c[Len(c)] = ")"
    /\ c[Len(c) - 1] = NumString(alpha)

\* C10: the fill style of every shape is an RGBA string whose alpha is the
\* alpha of its dot, whatever the form of the colour in the options, a
\* colour that is itself rgba(...) included.
C10_FillAlphaIsDotAlpha ==
    AfterStep =>
        \A i \in 1..Len(drawn) : IsRgbaOfAlpha(drawn[i].fillStyle, dots[i].alpha)

\* what the code does keep: the alpha is that of the dot unless the colour of
\* the options itself starts with rgba, which is drawn as it stands, or names
\* a property that namedColors inherits
C10_FillAlphaUnlessRgba ==
    AfterStep =>
        \A i \in 1..Len(drawn) :
            IF StartsWith(options.dotColor, <<"r", "g", "b", "a">>)
            THEN drawn[i].fillStyle = options.dotColor
            ELSE \/ ToLowerCase(options.dotColor) \in DOMAIN Inherited
                 \/ IsRgbaOfAlpha(drawn[i].fillStyle, dots[i].alpha)

\* a colour string that is neither in rgb, rgba or hex syntax nor one of the
\* named colours
Unrecognized(color) ==
    /\ ~StartsWith(color, <<"r", "g", "b">>)
    /\ ~StartsWith(color, <<"#">>)
    /\ ToLowerCase(color) \notin DOMAIN NamedColors("1")

\* the colour _getRGBA falls back to: white, at the alpha of the dot
Fallback(alpha) == Rgba("255", "255", "255", NumString(alpha))

\* C11: for every colour string of the options that is not a recognized
\* colour, a step raises no error and fills every dot with the fallback
\* colour that _getRGBA returns for it.
C11_UnrecognizedFallsBack ==
    lastCall.stepped /\ ctx # "null" /\ Unrecognized(options.dotColor) =>
        /\ ~lastCall.threw
        /\ Len(drawn) = Len(dots)
        /\ \A i \in 1..Len(dots) : drawn[i].fillStyle = Fallback(dots[i].alpha)

\* what the code does keep: the fallback for every unrecognized colour that
\* is not the name of a property namedColors inherits
C11_FallsBackUnlessInherited ==
    /\ lastCall.stepped /\ ctx # "null" /\ Unrecognized(options.dotColor)
    /\ ToLowerCase(options.dotColor) \notin DOMAIN Inherited
    => /\ ~lastCall.threw
       /\ Len(drawn) = Len(dots)
       /\ \A i \in 1..Len(dots) : drawn[i].fillStyle = Fallback(dots[i].alpha)

\* a step has drawn a field whose colour is an unknown name
C11_FallbackReached ==
    /\ lastCall.stepped /\ ctx # "null" /\ Len(dots) > 0
    /\ options.dotColor = NamedTeal
    /\ drawn[1].fillStyle = Fallback(dots[1].alpha)

\* the bound of [-50, size + 50] nearest to c, c itself when it lies within
Nearest(c, size) ==
    IF Lt(c, Neg(Margin)) THEN Neg(Margin)
    ELSE IF Gt(c, Add(size, Margin)) THEN Add(size, Margin)
    ELSE c

\* C12: a resize of a surface of size (w, h), w and h positive, to another
\* size (w2, h2) multiplies the x of every dot by w2 / w and its y by h2 / h
\* and then moves a coordinate outside [-50, new size + 50] to the nearest
\* bound; it changes no other field of a dot.
C12_ResizeRescalesAndClamps ==
    [][/\ lastCall'.op = "_updateCanvasSize" /\ ~lastCall'.threw
       /\ width > 0 /\ height > 0
       => /\ Len(dots') = Len(dots)
          /\ \A i \in 1..Len(dots) :
                /\ dots'[i].x = Nearest(Mul(dots[i].x, Div(width', width)), width')
                /\ dots'[i].y = Nearest(Mul(dots[i].y, Div(height', height)), height')
                /\ [dots'[i] EXCEPT !.x = dots[i].x, !.y = dots[i].y] = dots[i]]_vars

\* a coordinate lies on a bound of the band around size
OnBound(c, size) == c = Neg(Margin) \/ c = Add(size, Margin)

\* a coordinate lies strictly within the band around size
Inside(c, size) == Gt(c, Neg(Margin)) /\ Lt(c, Add(size, Margin))

\* a resize from 20 x 10 to 40 x 20 has rescaled a dot that was moving in
\* the margin: one of its coordinates was put on a bound of the new band, the
\* other was scaled and is within it
C12_Witness ==
    /\ lastCall.op = "_updateCanvasSize" /\ ~lastCall.threw
    /\ width = 2 * 20 * Scale /\ height = 2 * 10 * Scale
    /\ \E i \in 1..Len(dots) :
          /\ dots[i].vx # 0
          /\ \/ OnBound(dots[i].x, width) /\ Inside(dots[i].y, height)
             \/ OnBound(dots[i].y, height) /\ Inside(dots[i].x, width)

\* the normalised time of the step that a transition makes
StepTime == Div(DeltaTimeMs([State EXCEPT !.now = now']), 10)

\* the mouse state a step that a transition makes works with: the speed
\* decayed
StepMouse ==
    Entered([State EXCEPT !.now = now'], DeltaTimeMs([State EXCEPT !.now = now']))

\* the velocity the forces and the speed limit of the step leave the dot i,
\* for the jitter of a stream
StepVelocity(i, stream) ==
    Forced(dots[i], MouseInfluence(dots[i], StepMouse, options, StepTime),
           options, StepTime, Draw(stream, 2 * i - 1), Draw(stream, 2 * i))

\* a coordinate c of the dot moved by the velocity v that the step left it
Integrate(c, v, speedMultiplier) == Add(c, Mul(Mul(v, speedMultiplier), StepTime))

\* c is where the wrap puts a coordinate that the integration left at p
Teleported(p, c, size) ==
    /\ Gt(p, Add(size, Margin)) => c = Neg(Margin)
    /\ Lt(p, Neg(Margin)) => c = Add(size, Margin)
    /\ InBand(p, size) => c = p

\* C13: in a step, a coordinate that the integration put above size + 50
\* becomes -50, one that it put below -50 becomes size + 50, one within
\* [-50, size + 50] stays as integrated; and the velocity of the dot after
\* the step is the velocity the speed limit left, whether the dot wrapped or
\* not.
C13_WrapTeleports ==
    [][lastCall'.op = "_animate" /\ ~lastCall'.threw =>
         \A i \in 1..Len(dots) :
            /\ Teleported(Integrate(dots[i].x, dots'[i].vx, dots[i].speedMultiplier),
                          dots'[i].x, width)
            /\ Teleported(Integrate(dots[i].y, dots'[i].vy, dots[i].speedMultiplier),
                          dots'[i].y, height)
            /\ \E stream \in RandomStreams :
                  /\ dots'[i].vx = StepVelocity(i, stream).vx
                  /\ dots'[i].vy = StepVelocity(i, stream).vy]_vars

\* a step has carried a dot across the left or the upper edge of the band
\* and put it on the opposite bound, still moving the same way
C13_Witness ==
    /\ lastCall.op = "_animate" /\ ~lastCall.threw
    /\ \E i \in 1..Len(dots) :
          \/ dots[i].x = Add(width, Margin) /\ Lt(dots[i].vx, 0)
          \/ dots[i].y = Add(height, Margin) /\ Lt(dots[i].vy, 0)

\* a step has carried a dot across the right or the lower edge of the band
\* and put it on the opposite bound, still moving the same way
C13_WrappedDown ==
    /\ lastCall.op = "_animate" /\ ~lastCall.threw
    /\ \E i \in 1..Len(dots) :
          \/ dots[i].x = Neg(Margin) /\ Gt(dots[i].vx, 0)
          \/ dots[i].y = Neg(Margin) /\ Gt(dots[i].vy, 0)

\* positions and speeds of the cursor: mouseX, mouseY, mouseSpeedX,
\* mouseSpeedY
Cursors ==
    {<<0, 0, 0, 0>>,
     <<10 * Scale, 5 * Scale, 15 * Scale, 0 - 15 * Scale>>,
     <<30 * Scale, 5 * Scale, 0 - 9 * Scale, 12 * Scale>>}

\* the state with the cursor at c
WithCursor(S, c) ==
    [S EXCEPT !.mouseX = c[1], !.mouseY = c[2],
              !.mouseSpeedX = c[3], !.mouseSpeedY = c[4]]

\* the dots after a frame that comes ms milliseconds after the last one,
\* with the jitter of a stream
DotsAfter(S, ms, stream) == Animate([S EXCEPT !.now = S.now + ms], stream).state.dots

\* the dots after a step do not depend on the cursor
CursorBlind(S) ==
    \A c \in Cursors, ms \in ElapsedMs, stream \in RandomStreams :
        DotsAfter(WithCursor(S, c), ms, stream) = DotsAfter(S, ms, stream)

\* C14: when reactive is false or the pointer is not over the container, a
\* step from the same dots with the same jitter gives every dot the same
\* position and velocity (and angles) whatever mouseX, mouseY, mouseSpeedX
\* and mouseSpeedY are.
C14_NoInfluenceWithoutPointer ==
    ctx # "null" /\ ~(options.reactive /\ isMouseOver) => CursorBlind(State)

\* the pointer has entered and left a reactive field, and a step has run
\* since; were the pointer still over the container, the next step would
\* depend on the cursor
C14_Witness ==
    /\ lastCall.op = "_animate" /\ ~lastCall.threw
    /\ options.reactive /\ ~isMouseOver
    /\ pointerCalls >= 2
    /\ Len(dots) > 0
    /\ ~CursorBlind([State EXCEPT !.isMouseOver = TRUE])

\* the pointer is over a field that is not reactive, and a step has run
C14_NotReactiveReached ==
    /\ lastCall.op = "_animate" /\ ~lastCall.threw
    /\ ~options.reactive /\ isMouseOver
    /\ Len(dots) > 0

\* the velocity of the cursor
MouseSpeed == [vx |-> mouseSpeedX, vy |-> mouseSpeedY]

\* each frame multiplies the velocity of the cursor by mouseSpeedDecay^dt
\* when the field is reactive, and leaves it otherwise
DecaysEachFrame ==
    [][lastCall'.op = "_animate" =>
         IF options.reactive
         THEN /\ mouseSpeedX' = Mul(mouseSpeedX, Pow(options.mouseSpeedDecay, StepTime))
              /\ mouseSpeedY' = Mul(mouseSpeedY, Pow(options.mouseSpeedDecay, StepTime))
         ELSE mouseSpeedX' = mouseSpeedX /\ mouseSpeedY' = mouseSpeedY]_vars

\* C15 as stated: with 0 < mouseSpeedDecay <= 1, under pointer events,
\* resizes and frames the velocity of the cursor satisfies
\* mouseSpeedX^2 + mouseSpeedY^2 <= maxMouseSpeed^2 in every state.
C15_MouseSpeedWithinLimitExactly ==
    options.mouseSpeedDecay > 0 /\ options.mouseSpeedDecay <= Scale =>
        WithinSpeed(MouseSpeed, options.maxMouseSpeed)

\* C15: with 0 < mouseSpeedDecay <= 1, under pointer events, resizes and
\* frames the speed of the cursor is in every state at most maxMouseSpeed
\* up to the rounding of the rescale, sqrt(mouseSpeedX^2 + mouseSpeedY^2) <=
\* maxMouseSpeed + eps, and each frame of a reactive field multiplies the
\* velocity of the cursor by mouseSpeedDecay^dt.
C15_MouseSpeedWithinLimit ==
    /\ [](options.mouseSpeedDecay > 0 /\ options.mouseSpeedDecay <= Scale =>
            WithinSpeed(MouseSpeed, options.maxMouseSpeed + SpeedEps))
    /\ DecaysEachFrame

\* after a resize, a move of the pointer farther than maxMouseSpeed, not
\* along an axis, has been cut down to the limit
C15_Witness ==
    /\ lastCall.op = "_handleMouseMove"
    /\ isMouseOver
    /\ width = 2 * 20 * Scale
    /\ mouseSpeedX # 0 /\ mouseSpeedY # 0
    /\ Abs(mouseX - prevMouseX) > options.maxMouseSpeed
    /\ WithinSpeed(MouseSpeed, options.maxMouseSpeed + SpeedEps)
    /\ ~WithinSpeed(MouseSpeed, options.maxMouseSpeed - SpeedEps)

\* a frame has decayed a velocity of the cursor that was not zero
C15_DecayReached ==
    /\ lastCall.op = "_animate" /\ options.reactive
    /\ mouseSpeedX # 0
    /\ Abs(mouseSpeedX) < options.maxMouseSpeed - SpeedEps

\* C16: at most one resize timeout is pending at any time; a resize event
\* rescales nothing and leaves pending only its own timeout, due 250 ms
\* after it; a geometry update runs only as the callback of the timeout of
\* the last resize event, at the time that timeout is due, and leaves none
\* pending: a burst of events each less than 250 ms after the previous one
\* causes exactly one update, 250 ms after its last event.
C16_ResizeDebounced ==
    /\ [](Cardinality(timers) <= 1)
    /\ [][lastCall'.op = "_handleResize" =>
            /\ dots' = dots /\ width' = width /\ height' = height
            /\ timers' = {[handle |-> resizeTimeout', due |-> now' + 250]}]_vars
    /\ [][lastCall'.op = "_updateCanvasSize" =>
            /\ timers = {[handle |-> resizeTimeout, due |-> now']}
            /\ timers' = {}
            /\ width' = rect.width /\ height' = rect.height]_vars

\* a burst of two resize events or more, after frames, has ended in one
\* geometry update: the clock is short of the time at which the update of a
\* second burst could run
C16_Witness ==
    /\ lastCall.op = "_updateCanvasSize" /\ ~lastCall.threw
    /\ timerCalls >= 2
    /\ animateCalls >= 2
    /\ now < 2 * 250
    /\ timers = {}
    /\ width = rect.width

\* every coordinate and velocity component of every dot is a finite number
DotsFinite(ds) ==
    \A i \in 1..Len(ds) :
        IsFinite(ds[i].x) /\ IsFinite(ds[i].y) /\ IsFinite(ds[i].vx) /\ IsFinite(ds[i].vy)

\* C17: with reactive set and the pointer over the container, an
\* influenceRadius that is zero or negative makes every step independent of
\* the position and the velocity of the cursor, and no dot has a NaN or
\* infinite velocity or position.
C17_NonPositiveRadiusDisables ==
    ctx # "null" /\ options.reactive /\ isMouseOver /\ Le(options.influenceRadius, 0)
        => CursorBlind(State) /\ DotsFinite(dots)

\* what the code does keep: a radius of zero disables the coupling, and a
\* radius of zero or less brings no NaN
C17_ZeroRadiusDisables ==
    ctx # "null" /\ options.reactive /\ isMouseOver /\ Le(options.influenceRadius, 0)
        => /\ DotsFinite(dots)
           /\ options.influenceRadius = 0 => CursorBlind(State)

\* a step has run with the pointer moving over a field of radius zero
C17_ZeroRadiusReached ==
    /\ lastCall.op = "_animate" /\ ~lastCall.threw
    /\ options.reactive /\ isMouseOver /\ options.influenceRadius = 0
    /\ mouseSpeedX # 0 /\ Len(dots) > 0

\* C18: a step leaves no dot with a NaN or infinite velocity or position,
\* whatever the options: a velocity that the step computes as NaN or
\* infinite, as an out-of-range friction or maxSpeed makes it, is reset to
\* zero before the position is integrated, so the next step starts from
\* finite dots.
C18_NonFiniteVelocityReset == AfterStep => DotsFinite(dots)

\* a step has run with a friction that is negative
C18_OddFrictionReached ==
    /\ lastCall.op = "_animate" /\ ~lastCall.threw
    /\ options.friction < 0 /\ Len(dots) > 0

\* an angle brought into [0, 2 pi) by whole turns
Normal(angle) == WrapBelow(WrapUp(angle, 0), TwoPi)

\* the options with rotSmoothing set and a rotSmoothingIntensity of 0
SmoothedOptions(o) == [o EXCEPT !.rotSmoothing = TRUE, !.rotSmoothingIntensity = 0]

\* the dot of a field with rotSmoothing: true and intensity 0 that
\* corresponds to a dot of the field with rotSmoothing: false: the same dot,
\* its angle within [0, 2 pi), its target the angle itself
SmoothedDot(dot) ==
    SetField(SetField(dot, "currentAngle", Normal(dot.currentAngle)),
             "targetAngle", dot.currentAngle)

\* the shape with its rotation within [0, 2 pi)
SmoothedShape(cmd) == [cmd EXCEPT !.rotation = Normal(cmd.rotation)]

\* the state of the instance with rotSmoothing: true and intensity 0 that
\* corresponds to a state of the instance with rotSmoothing: false
Smoothed(S) ==
    [S EXCEPT !.options = SmoothedOptions(S.options),
              !.dots = [i \in 1..Len(S.dots) |-> SmoothedDot(S.dots[i])],
              !.drawn = [i \in 1..Len(S.drawn) |-> SmoothedShape(S.drawn[i])]]

\* the instance with rotSmoothing: false
Instant == ctx # "null" /\ options.dotStretch /\ ~options.rotSmoothing

\* a frame ms milliseconds after the last, with the jitter of a stream
FrameOf(S, ms, stream) == Animate([S EXCEPT !.now = S.now + ms], stream).state

\* C19: with dotStretch set, the instance with rotSmoothing: true and
\* rotSmoothingIntensity: 0 runs in step with the instance with
\* rotSmoothing: false: they are constructed with the same dots, and a step
\* with the same elapsed time and jitter takes corresponding states to
\* corresponding states, in which every dot has the same position and
\* velocity and every shape is the same, its rotation equal modulo 2 pi.
C19_SmoothingZeroIsInstant ==
    /\ \A page \in Pages, stream \in RandomStreams :
          LET o == MergeOptions(Defaults, page.options)
          IN  o.dotStretch /\ ~o.rotSmoothing /\ GetContainer(o.container) # "null" =>
                LET A == Construct(page.options, page.rect, stream)
                    B == Construct(SmoothedOptions(o), page.rect, stream)
                IN  B.dots = Smoothed(A).dots /\ B.drawn = Smoothed(A).drawn
    /\ Instant =>
          \A ms \in ElapsedMs, stream \in RandomStreams :
              /\ FrameOf(Smoothed(State), ms, stream).dots
                    = Smoothed(FrameOf(State, ms, stream)).dots
              /\ FrameOf(Smoothed(State), ms, stream).drawn
                    = Smoothed(FrameOf(State, ms, stream)).drawn

\* a step of the instance with rotSmoothing: false has drawn a stretched dot
\* at a negative angle, which the other instance draws a whole turn higher
C19_Witness ==
    /\ lastCall.op = "_animate" /\ ~lastCall.threw
    /\ Instant
    /\ \E i \in 1..Len(drawn) :
          /\ drawn[i].shape = "ellipse"
          /\ drawn[i].rotation < 0
          /\ Smoothed(State).drawn[i].rotation = drawn[i].rotation + TwoPi

\* |d| <= limit * speedMultiplier * dt
WithinReach(d, dot, limit) ==
    Le(Abs(d), Mul(Mul(limit, dot.speedMultiplier), StepTime))

\* in the step that a transition makes, every dot takes the velocity that
\* the speed limit leaves after the mouse influence, the jitter and the
\* friction, moves on each axis by that velocity times speedMultiplier
\* times dt, by no more than limit * speedMultiplier * dt, then wraps, and
\* is drawn where it then is
StepInOrder(limit) ==
    \A i \in 1..Len(dots) :
        /\ \E stream \in RandomStreams :
              /\ dots'[i].vx = StepVelocity(i, stream).vx
              /\ dots'[i].vy = StepVelocity(i, stream).vy
        /\ dots'[i].x = Wrap(Integrate(dots[i].x, dots'[i].vx,
                                       dots[i].speedMultiplier), width)
        /\ dots'[i].y = Wrap(Integrate(dots[i].y, dots'[i].vy,
                                       dots[i].speedMultiplier), height)
        /\ WithinReach(Mul(Mul(dots'[i].vx, dots[i].speedMultiplier), StepTime),
                       dots[i], limit)
        /\ WithinReach(Mul(Mul(dots'[i].vy, dots[i].speedMultiplier), StepTime),
                       dots[i], limit)
        /\ drawn'[i].x = dots'[i].x /\ drawn'[i].y = dots'[i].y

\* C20 as stated: in a step the operations on a dot run in the order mouse
\* influence, jitter, friction, speed limit, integration, wrap, draw, and
\* on each axis the displacement before the wrap is the velocity after the
\* step times speedMultiplier times dt, of a magnitude of at most
\* maxSpeed * speedMultiplier * dt.
C20_IntegratesLimitedVelocityExactly ==
    [][lastCall'.op = "_animate" /\ ~lastCall'.threw =>
         StepInOrder(options.maxSpeed)]_vars

\* C20: the same, the displacement being at most
\* (maxSpeed + eps) * speedMultiplier * dt, eps the rounding of the rescale
\* of the speed limit.
C20_IntegratesLimitedVelocity ==
    [][lastCall'.op = "_animate" /\ ~lastCall'.threw =>
         StepInOrder(options.maxSpeed + SpeedEps)]_vars

\* a step has run in which the pointer pushed a dot beyond the speed limit:
\* the dot moves at the limit
C20_Witness ==
    /\ lastCall.op = "_animate" /\ ~lastCall.threw
    /\ isMouseOver /\ mouseSpeedX # 0
    /\ \E i \in 1..Len(dots) :
          /\ WithinSpeed(dots[i], options.maxSpeed + SpeedEps)
          /\ ~WithinSpeed(dots[i], options.maxSpeed - SpeedEps)
          /\ drawn[i].x = dots[i].x

\* the dot has the property key
Has(dot, key) == key \in DOMAIN dot

\* C21: in every state (after construction, steps, updateOptions, pause,
\* resume and destroy) each dot has a currentAngle exactly when
\* options.dotStretch is on, and a targetAngle exactly when options.dotStretch
\* and options.rotSmoothing are both on; so the angle _drawDot reads when it
\* smooths the rotation is one the dot has.
C21_AngleFieldsFollowOptions ==
    \A i \in 1..Len(dots) :
        /\ Has(dots[i], "currentAngle") <=> options.dotStretch
        /\ Has(dots[i], "targetAngle") <=>
               (options.dotStretch /\ options.rotSmoothing)
        /\ (options.dotStretch /\ options.rotSmoothing) =>
               Field(dots[i], "currentAngle") # NaN

\* a step has run on the field that updateOptions made when it turned the
\* stretching of the default page off: its dots have no angle
C21_Witness ==
    /\ lastCall.op = "_animate" /\ ~lastCall.threw
    /\ updateCalls > 0
    /\ ~options.dotStretch /\ options.dotColor = RgbGreen
    /\ options.numDots = MaxDots /\ Len(dots) = MaxDots
    /\ \A i \in 1..Len(dots) : ~Has(dots[i], "currentAngle")

\* a step has run on the field that updateOptions made when it turned the
\* smoothing of the default page on: its dots have both angles
C21_SmoothedReached ==
    /\ lastCall.op = "_animate" /\ ~lastCall.threw
    /\ updateCalls > 0
    /\ options.dotStretch /\ options.rotSmoothing /\ options.dotColor = NamedBlue
    /\ options.numDots = MaxDots /\ Len(dots) = MaxDots
    /\ \A i \in 1..Len(dots) : Has(dots[i], "targetAngle")

\* min(min(speed / maxSpeed, 1) * dotStretchMult, dotMaxStretch)
CappedStretch(dot, o) ==
    MathMin(Mul(MathMin(Div(Sqrt(Add(Mul(dot.vx, dot.vx), Mul(dot.vy, dot.vy))),
                            o.maxSpeed),
                        Scale),
                o.dotStretchMult),
            o.dotMaxStretch)

\* the shape drawn for the dot is the one the stretch amount asks for: a
\* circle of its radius when the amount is below 0.01, else an ellipse of
\* semi-axes radius + amount and radius
ShapeOf(cmd, dot, amount) ==
    IF Lt(amount, 1)
    THEN cmd.shape = "circle" /\ cmd.radiusX = dot.radius /\ cmd.radiusY = dot.radius
    ELSE /\ cmd.shape = "ellipse"
         /\ cmd.radiusX = Add(dot.radius, amount)
         /\ cmd.radiusY = dot.radius

\* C22: after a step with dotStretch on, every dot is drawn with the
\* stretch amount min(min(speed / maxSpeed, 1) * dotStretchMult,
\* dotMaxStretch), for every dotMaxStretch >= 0, zero included: the long
\* semi-axis is at most radius + dotMaxStretch, the shape a circle when the
\* amount is below 0.01 and else an ellipse of semi-axes radius + amount
\* and radius.
C22_StretchWithinMax ==
    AfterStep /\ options.dotStretch /\ Ge(options.dotMaxStretch, 0) =>
        \A i \in 1..Len(dots) :
            /\ ShapeOf(drawn[i], dots[i], CappedStretch(dots[i], options))
            /\ Le(drawn[i].radiusX, Add(dots[i].radius, options.dotMaxStretch))

\* what the code does keep: the same for every dotMaxStretch > 0
C22_StretchWithinPositiveMax ==
    AfterStep /\ options.dotStretch /\ Gt(options.dotMaxStretch, 0) =>
        \A i \in 1..Len(dots) :
            /\ ShapeOf(drawn[i], dots[i], CappedStretch(dots[i], options))
            /\ Le(drawn[i].radiusX, Add(dots[i].radius, options.dotMaxStretch))

\* a step has drawn a dot as an ellipse at a limit of the stretch that binds
C22_LimitReached ==
    /\ AfterStep /\ options.dotStretch /\ Gt(options.dotMaxStretch, 0)
    /\ \E i \in 1..Len(dots) :
          /\ drawn[i].shape = "ellipse"
          /\ drawn[i].radiusX = Add(dots[i].radius, options.dotMaxStretch)
          /\ Gt(StretchAmount(dots[i], [options EXCEPT !.dotMaxStretch = 0]),
                options.dotMaxStretch)

\* a step has drawn a dot at rest as a circle, with stretching on
C22_CircleReached ==
    /\ AfterStep /\ options.dotStretch /\ Gt(options.dotMaxStretch, 0)
    /\ \E i \in 1..Len(dots) :
          drawn[i].shape = "circle" /\ dots[i].vx = 0 /\ dots[i].vy = 0

\* the turns an angle of the inputs can be away from another
Turns == (0 - 4)..4

\* the signed arcs that lead from current to target
Arcs(current, target) == {target - current + k * TwoPi : k \in Turns}

\* an arc is one of the shortest from current to target
Shortest(d, current, target) ==
    /\ d \in Arcs(current, target)
    /\ \A e \in Arcs(current, target) : Abs(d) <= Abs(e)

\* the angles a and b are the same modulo a turn
SameAngle(a, b) == \E k \in Turns : a = b + k * TwoPi

\* C23: for angles current, target and a factor in [0, 1], _lerpAngle
\* returns current moved by factor times a shortest arc to target, as an
\* angle in [0, 2 pi); with factor 1 that is target modulo 2 pi;
\* lerpAngle(0, pi, 0.5) is pi / 2 and lerpAngle(0.1, 2 pi - 0.1, 0.5) is 0,
\* on the arc through 0.
C23_LerpAngleTakesShortArc ==
    angleCall.called =>
        /\ \E d \in Arcs(angleCall.current, angleCall.target) :
              /\ Shortest(d, angleCall.current, angleCall.target)
              /\ SameAngle(angleCall.result,
                           angleCall.current + Mul(d, angleCall.factor))
        /\ 0 <= angleCall.result /\ angleCall.result < TwoPi
        /\ angleCall.factor = Scale => SameAngle(angleCall.result, angleCall.target)
        /\ (angleCall.current = 0 /\ angleCall.target = Pi /\ angleCall.factor = 50)
              => angleCall.result = Pi \div 2
        /\ (angleCall.current = 10 /\ angleCall.target = TwoPi - 10
              /\ angleCall.factor = 50) => angleCall.result = 0

\* _lerpAngle was called half way from 0.1 to 2 pi - 0.1 and returned 0
C23_Witness ==
    /\ angleCall.called
    /\ angleCall.current = 10 /\ angleCall.target = TwoPi - 10
    /\ angleCall.factor = 50
    /\ angleCall.result = 0

\* the properties of the instance
InstanceFields ==
    <<options, container, canvas, ctx, dots, width, height, mouseX, mouseY,
      prevMouseX, prevMouseY, mouseSpeedX, mouseSpeedY, animationFrame,
      resizeTimeout, lastFrameTime, isMouseOver>>

\* the handlers of the events of the page, and the callback of the timeout
EventHandlers ==
    {"_handleMouseMove", "_handleMouseEnter", "_handleMouseLeave",
     "_handleResize", "_updateCanvasSize"}

\* C24: destroy removes every listener that init registered and leaves no
\* timeout pending: once the instance is destroyed, no pointer event, no
\* resize of the window and no timeout set before the call changes a
\* property of the instance or raises an error.
C24_DestroyDetaches ==
    /\ [](Destroyed => listeners = {} /\ timers = {})
    /\ [][Destroyed /\ lastCall'.op \in EventHandlers =>
            /\ UNCHANGED InstanceFields
            /\ ~lastCall'.threw]_vars

\* after destroy no listener is registered and no timeout is pending
C24_NothingPending == Destroyed => listeners = {} /\ timers = {}

\* once the instance is destroyed no handler changes a property of it
C24_HandlersChangeNothing ==
    [][Destroyed /\ lastCall'.op \in EventHandlers => UNCHANGED InstanceFields]_vars

\* once the instance is destroyed no handler raises an error
C24_HandlersRaiseNothing ==
    [][Destroyed /\ lastCall'.op \in EventHandlers => ~lastCall'.threw]_vars

\* what destroy does stop: with no call of resume, no frame is pending and
\* no step runs after it
C24_FramesStopped ==
    Destroyed => frames = {} /\ (lastCall.op = "destroy" \/ ~lastCall.stepped)

\* the timeout of a resize that preceded destroy has run after it and raised
\* an error
C24_TimerAfterDestroyReached ==
    Destroyed /\ lastCall.op = "_updateCanvasSize" /\ lastCall.threw

\* C25: a call of updateOptions with no argument, or with undefined, raises
\* no error and leaves the options and the dots as they were.
C25_UpdateWithoutArgumentIsNoOp ==
    [][lastCall'.op = "updateOptions" /\ lastCall'.arg = Undefined =>
         /\ ~lastCall'.threw
         /\ options' = options
         /\ dots' = dots]_vars

\* what the code does keep: the call leaves the options and the dots as
\* they were, and raises its error after the merge
C25_UpdateWithoutArgumentChangesNothing ==
    [][lastCall'.op = "updateOptions" /\ lastCall'.arg = Undefined =>
         /\ lastCall'.threw /\ ~lastCall'.created
         /\ options' = options
         /\ dots' = dots]_vars

\* updateOptions was called with no argument on a running field
C25_WithoutArgumentReached ==
    /\ lastCall.op = "updateOptions" /\ lastCall.arg = Undefined
    /\ Alive /\ Len(dots) > 0 /\ animateCalls >= 2

\* the instance after the container has taken the size r and
\* _updateCanvasSize has run
Resized(S, r) == UpdateCanvasSize([S EXCEPT !.rect = r]).state

\* the instance after a resize to r and one back to the size it has
ThereAndBack(S, r) ==
    Resized(Resized(S, r), [width |-> S.width, height |-> S.height])

\* the factor by which a resize from the size old to the size new scales
ScaleTo(old, new) == Div(new, IF Truthy(old) THEN old ELSE new)

\* a resize from old to new leaves the coordinate c within the bounds: the
\* clamp does not act on it
Unclamped1(c, old, new) == InBand(Mul(c, ScaleTo(old, new)), new)

\* neither resize of the way to r and back clamps a coordinate of a dot
NoClampOnTheWay(S, r) ==
    \A i \in 1..Len(S.dots) :
        /\ Unclamped1(S.dots[i].x, S.width, r.width)
        /\ Unclamped1(S.dots[i].y, S.height, r.height)
        /\ Unclamped1(Resized(S, r).dots[i].x, r.width, S.width)
        /\ Unclamped1(Resized(S, r).dots[i].y, r.height, S.height)

\* the rounding of the way there and back: half a unit of the first
\* scaling, scaled back by a factor of at most two, and half a unit of the
\* second
RoundTripEps == 1 + 1

\* two coordinates are the same up to that rounding (or both NaN)
Same(a, b) == a = b \/ (IsFinite(a) /\ IsFinite(b) /\ Abs(a - b) <= RoundTripEps)

\* the dots of S and of T are at the same positions
SamePositions(S, T) ==
    /\ Len(S.dots) = Len(T.dots)
    /\ \A i \in 1..Len(S.dots) :
          Same(S.dots[i].x, T.dots[i].x) /\ Same(S.dots[i].y, T.dots[i].y)

\* C26: a resize from the size (w, h) of the canvas to any (w', h') with
\* w' >= 0 and h' >= 0, zero included, followed by a resize back to (w, h)
\* with no step between them, returns every dot to the position it had (up
\* to the rounding of the two scalings), when neither resize clamps a
\* coordinate.
C26_ResizeRoundTrip ==
    Alive =>
        \A r \in RectSizes :
            NoClampOnTheWay(State, r) => SamePositions(State, ThereAndBack(State, r))

\* what the code does keep: the same between sizes that are all positive
C26_PositiveRoundTrip ==
    Alive /\ width > 0 /\ height > 0 =>
        \A r \in RectSizes :
            (r.width > 0 /\ r.height > 0 /\ NoClampOnTheWay(State, r)) =>
                SamePositions(State, ThereAndBack(State, r))

\* a field that steps and a resize have moved has a dot away from the axes,
\* which a resize to the double size and back returns to its place
C26_PositiveReached ==
    /\ Alive /\ lastCall.op = "_updateCanvasSize" /\ animateCalls >= 2
    /\ width > 0 /\ height > 0
    /\ \E i \in 1..Len(dots) : Gt(dots[i].x, 0) /\ Gt(dots[i].y, 0)
    /\ \E r \in RectSizes :
          /\ r.width > 0 /\ r.width # width /\ NoClampOnTheWay(State, r)
          /\ Resized(State, r).dots # dots

\* C27: every call of _animate takes as elapsed a time between 0 and 32
\* ms, however long ago the last frame was: a frame takes the time since
\* the last call of _animate, cut to 32 ms, and the step that resume runs
\* takes 0, because resume sets the frame clock to the time of the call, so
\* that the time spent paused is not counted; every call leaves the frame
\* clock at the time it ran.
C27_ElapsedWithinCap ==
    [][animateCalls' # animateCalls =>
         /\ 0 <= lastDeltaTimeMs' /\ lastDeltaTimeMs' <= 32
         /\ lastCall'.op = "_animate" =>
                lastDeltaTimeMs' = Min(now' - lastFrameTime, 32)
         /\ lastCall'.op = "resume" => lastDeltaTimeMs' = 0
         /\ lastFrameTime' = now']_vars

\* the field was paused after its first frame and resumed more than 32 ms
\* after it: the step of the resume took no time
C27_Witness ==
    /\ lastCall.op = "resume" /\ lastCall.stepped /\ ~lastCall.threw
    /\ animateCalls = 2 /\ Len(dots) > 0
    /\ now > 32
    /\ lastDeltaTimeMs = 0 /\ lastFrameTime = now

\* a frame has run more than 32 ms after the one before: it took 32 ms
C27_CapReached ==
    /\ lastCall.op = "_animate" /\ ~lastCall.threw
    /\ animateCalls = 2 /\ Len(dots) > 0
    /\ now > 32
    /\ lastDeltaTimeMs = 32

====
